---- MODULE Spec2Model ----
(***************************************************************************)
(* State-machine model of the authenticated-session core of the OpenStack  *)
(* client (libcloud/common/openstack.py) and of the vCloud task waiter     *)
(* (libcloud/compute/drivers/vcloud.py).                                   *)
(*                                                                         *)
(* Every client operation (construction, request, the lazy                 *)
(* _populate_hosts_and_request_paths, a direct authenticate() on the       *)
(* identity connection) is one atomic action.  The identity connection     *)
(* (libcloud/common/openstack_identity.py) and the transport base class    *)
(* (libcloud/common/base.py) are modelled from their documented contract.  *)
(***************************************************************************)
EXTENDS Integers, Sequences, FiniteSets, TLC

----------------------------------------------------------------------------
(* Bounds of the model                                                     *)

\* Largest value of the wall clock.
MaxTime == 2

\* Largest number of tokens the identity service issues in one behaviour.
MaxIssue == 2

\* Largest value of the clock of the task waiter, in seconds.
MaxClock == 16

\* Longest microversion string made of every combination of characters.
MaxLen == 5

----------------------------------------------------------------------------
(* Values                                                                  *)

\* Python's None, for string-valued fields.
None == "None"

\* Python's None, for the token expiry (a time otherwise).
NoExpiry == 0 - 1

\* The clients (connections) a behaviour may construct.
Clients == {"c1", "c2"}

\* httplib.UNAUTHORIZED
UNAUTHORIZED == 401

\* AUTH_API_VERSION, the default protocol identifier.
AUTH_API_VERSION == "1.1"

\* Auth versions which contain token expiration information.
AUTH_VERSIONS_WITH_EXPIRES ==
    {"1.1", "2.0", "2.0_apikey", "2.0_password", "3.x", "3.x_password"}

\* Protocol identifiers with a handshake implementation: those that report
\* an expiry, and "1.0", which reports none.
SupportedAuthVersions == AUTH_VERSIONS_WITH_EXPIRES \cup {"1.0"}

\* Grace period subtracted from the expiry when a token is tested.
ClockSkew == 1

\* Lifetimes the identity service may give a token (seconds from issue).
TTLs == {1, 3}

\* The tokens the identity service issues, in order of issue.
TokenNames == <<"T1", "T2", "T3", "T4", "T5", "T6">>

Tok(n) == TokenNames[n]

\* Python truthiness of an optional string: None and "" are falsy.
Truthy(s) == s # None /\ s # ""

\* URLs, as the parts urlparse splits them into; port 0 is "no port given".
Url(scheme, host, port, path) ==
    [scheme |-> scheme, host |-> host, port |-> port, path |-> path]

\* Python's None, for a URL.
NoUrl == Url(None, None, 0, None)

UrlTruthy(u) == u # NoUrl

ForcedBaseUrl == Url("http", "ponies", 0, "/forced_url")

EndpointUrlA == Url("https", "servers.api.rackspacecloud.com", 0, "/v1.0/slug")

\* URLs the endpoint of one service may have over time: another path, the
\* default port spelled out, another port, another scheme with and without
\* the same port, another host.
ConnectionUrls ==
    {EndpointUrlA,
     Url("https", "servers.api.rackspacecloud.com", 0, "/v2.0/slug"),
     Url("https", "servers.api.rackspacecloud.com", 443, "/v1.0/slug"),
     Url("https", "servers.api.rackspacecloud.com", 8774, "/v1.0/slug"),
     Url("http", "servers.api.rackspacecloud.com", 0, "/v1.0/slug"),
     Url("http", "servers.api.rackspacecloud.com", 443, "/v1.0/slug"),
     Url("https", "lon.servers.api.rackspacecloud.com", 0, "/v1.0/slug")}

\* Raw service catalogs an authentication response may carry.
CatalogA ==
    << [type |-> "compute", name |-> "nova", region |-> "RegionOne",
        url |-> EndpointUrlA] >>

CatalogEmpty == << >>

Catalogs == {CatalogA, CatalogEmpty}

\* The catalogs that hold the one service at one of these URLs.
ConnectionCatalogs ==
    {<< [type |-> "compute", name |-> "nova", region |-> "RegionOne",
         url |-> u] >> : u \in ConnectionUrls}

\* A catalog with an entry for every combination of two service types, two
\* service names and two regions; the host tells the entries apart.
Entry(type, name, region, host) ==
    [type |-> type, name |-> name, region |-> region,
     url |-> Url("https", host, 0, "/v2")]

CatalogFull ==
    << Entry("compute", "nova", "RegionOne", "nova.one.example.com"),
       Entry("compute", "nova", "RegionTwo", "nova.two.example.com"),
       Entry("compute", "swift", "RegionOne", "compute-swift.one.example.com"),
       Entry("compute", "swift", "RegionTwo", "compute-swift.two.example.com"),
       Entry("object-store", "nova", "RegionOne", "store-nova.one.example.com"),
       Entry("object-store", "nova", "RegionTwo", "store-nova.two.example.com"),
       Entry("object-store", "swift", "RegionOne", "swift.one.example.com"),
       Entry("object-store", "swift", "RegionTwo", "swift.two.example.com") >>

\* The service of the provider's defaults in the second region only, after
\* an entry of another service in the first region.
CatalogRegionTwo ==
    << Entry("object-store", "swift", "RegionOne", "swift.one.example.com"),
       Entry("compute", "nova", "RegionTwo", "nova.two.example.com") >>

\* Two entries of the same service and region.
CatalogTwice ==
    << Entry("compute", "nova", "RegionTwo", "nova-a.two.example.com"),
       Entry("compute", "nova", "RegionOne", "nova-a.one.example.com"),
       Entry("compute", "nova", "RegionOne", "nova-b.one.example.com") >>

EndpointCatalogs == {CatalogFull, CatalogRegionTwo, CatalogTwice, CatalogEmpty}

----------------------------------------------------------------------------
(* Strings that are taken apart: sequences of one-character strings        *)

Whitespace == {" ", "\t"}

\* The characters of the strings the code compares by prefix.
Chars(str) ==
    CASE str = "compute" -> <<"c", "o", "m", "p", "u", "t", "e">>
      [] str = "object-store" ->
            <<"o", "b", "j", "e", "c", "t", "-", "s", "t", "o", "r", "e">>
      [] OTHER -> << >>

\* str.strip()
RECURSIVE strip(_)
strip(s) ==
    IF s = << >> THEN s
    ELSE IF Head(s) \in Whitespace THEN strip(Tail(s))
    ELSE IF s[Len(s)] \in Whitespace THEN strip(SubSeq(s, 1, Len(s) - 1))
    ELSE s

\* The length of the run of non-whitespace characters s begins with.
WordLen(s) ==
    IF \E i \in DOMAIN s : s[i] \in Whitespace
    THEN (CHOOSE i \in DOMAIN s :
            /\ s[i] \in Whitespace
            /\ \A j \in 1..(i - 1) : s[j] \notin Whitespace) - 1
    ELSE Len(s)

\* str.split(): the runs of non-whitespace characters, in order.
RECURSIVE split(_)
split(s) ==
    IF s = << >> THEN << >>
    ELSE IF Head(s) \in Whitespace THEN split(Tail(s))
    ELSE <<SubSeq(s, 1, WordLen(s))>>
            \o split(SubSeq(s, WordLen(s) + 1, Len(s)))

\* str.startswith(prefix)
StartsWith(s, prefix) ==
    Len(prefix) <= Len(s) /\ SubSeq(s, 1, Len(prefix)) = prefix

\* All strings of up to n characters of an alphabet.
StringsUpTo(alphabet, n) == UNION {[1..k -> alphabet] : k \in 0..n}

\* No forced microversion: None or the empty string, which the code does not
\* tell apart.
NoMicroversion == << >>

\* The forced microversions: every layout of whitespace and digits up to
\* MaxLen characters, and strings as callers write them.
MicroversionStrings ==
    StringsUpTo({" ", "2"}, MaxLen)
    \cup {<<"2", ".", "6", "0">>,
          <<"c", "o", "m", "p", "u", "t", "e", " ", "2", ".", "6", "0">>,
          <<" ", "c", "o", "m", "p", "u", "t", "e", "\t", " ", "2", ".", "6",
            "0", " ">>,
          <<"v", "o", "l", "u", "m", "e", " ", "3", ".", "0">>,
          <<"o", "b", "j", "e", "c", "t", " ", "1">>,
          <<"a", " ", "b", " ", "c">>,
          <<"a", " ", "b", " ", "c", " ", "d">>,
          <<" ", "\t", " ">>}

----------------------------------------------------------------------------
(* Client configuration: the constructor arguments and class attributes    *)

ConfigFields ==
    [ auth_url : {None, "https://auth.api.example.com"},
      ex_force_auth_url : {None},
      ex_force_auth_version : {None, "1.0", "2.0_password", "5.0"},
      ex_force_auth_token : {None, "", "preset-auth-token"},
      ex_force_base_url : {NoUrl, ForcedBaseUrl},
      ex_auth_cache : BOOLEAN,
      user_id : {"u"},
      key : {"k"},
      ex_tenant_name : {None},
      service_type : {"compute"},
      service_name : {"nova"},
      service_region : {"RegionOne"},
      ex_force_service_type : {None},
      ex_force_service_name : {None},
      ex_force_service_region : {None},
      ex_force_microversion : {NoMicroversion} ]

\* The configurations of the single-client specification: every combination
\* of forced token, forced base URL and external cache with the default
\* protocol, and the other protocols and a missing auth URL without them.
Configs ==
    {cf \in ConfigFields :
        \/ cf.auth_url # None /\ cf.ex_force_auth_version = None
        \/ /\ cf.ex_force_auth_token = None /\ cf.ex_force_base_url = NoUrl
           /\ ~cf.ex_auth_cache}

\* The configurations of the specification of endpoint selection: a client
\* that authenticates, with every combination of forced service type, name
\* and region, with and without a forced base URL.
EndpointConfigs ==
    {[cf EXCEPT !.ex_force_service_type = type,
                !.ex_force_service_name = name,
                !.ex_force_service_region = region] :
        cf \in {cf \in ConfigFields :
                    /\ cf.auth_url # None
                    /\ cf.ex_force_auth_version = None
                    /\ cf.ex_force_auth_token = None
                    /\ ~cf.ex_auth_cache},
        type \in {None, "object-store"},
        name \in {None, "swift"},
        region \in {None, "RegionTwo", "invalid"}}

\* Microversions of a service, for clients whose service type is forced.
ServiceMicroversions ==
    {<<"2", ".", "6", "0">>,
     <<"c", "o", "m", "p", "u", "t", "e", " ", "2", ".", "6", "0">>,
     <<"o", "b", "j", "e", "c", "t", " ", "1">>}

\* The configurations of the specification of the default headers: a client
\* that authenticates, with a forced microversion, and with a forced
\* service type for the microversions of a service.
MicroversionConfigs ==
    LET plain == {cf \in ConfigFields :
                    /\ cf.auth_url # None
                    /\ cf.ex_force_auth_version = None
                    /\ cf.ex_force_auth_token = None
                    /\ cf.ex_force_base_url = NoUrl
                    /\ ~cf.ex_auth_cache}
    IN {[cf EXCEPT !.ex_force_microversion = microversion] :
            cf \in plain, microversion \in MicroversionStrings}
       \cup {[cf EXCEPT !.ex_force_microversion = microversion,
                        !.ex_force_service_type = "object-store"] :
                cf \in plain, microversion \in ServiceMicroversions}

\* The configurations of the specification of the identity connection: a
\* client that authenticates, with and without an external cache, for a
\* protocol that reports an expiry and one that reports none.
IdentityConfigs ==
    {cf \in ConfigFields :
        /\ cf.auth_url # None
        /\ cf.ex_force_auth_version \in {None, "1.0"}
        /\ cf.ex_force_auth_token = None
        /\ cf.ex_force_base_url = NoUrl}

VARIABLES
    now,        \* wall clock
    phase,      \* per client: "unbuilt", "ready", "config_error"
    cfg,        \* per client: constructor arguments
    auth_version, \* per client: self._auth_version
    conn,       \* per client: fields of the OpenStackBaseConnection
    osa,        \* per client: fields of the identity connection (self._osa)
    cache,      \* the external authentication cache: key -> context
    issued,     \* number of tokens the identity service has issued
    served,     \* the service catalog of the deployment
    last,       \* per client: record of the last operation (history)
    run,        \* per client: the call that runs step by step
    writes,     \* tokens of the contexts put into the cache, in order (history)
    mock,       \* the last operation on the cache used on its own (history)
    clock,      \* time.time() of the task waiter, in seconds
    wait,       \* the running _wait_for_task_completion call
    raised,     \* per way of failing: the exception kinds it raised (history)
    drv,        \* the running operation of the vCloud 1.5 node driver
    vc          \* the vCloud connection and what its last call did

osVars == <<now, phase, cfg, auth_version, conn, osa, cache, issued, served,
            last, run, writes, mock>>

waitVars == <<clock, wait, raised>>

drvVars == <<drv>>

vcVars == <<vc>>

vars == <<osVars, waitVars, drvVars, vcVars>>

----------------------------------------------------------------------------
(* The external authentication cache (a dict keyed by the cache key)       *)

\* An AuthContext: token, expiry, user info, raw catalog.  NoContext is the
\* context of an identity connection that holds no token.
NoContext ==
    [auth_token |-> None, auth_token_expires |-> NoExpiry,
     auth_user_info |-> None, urls |-> << >>]

\* store.get(key): the stored context, or none.
cache_get(store, key) ==
    IF key \in DOMAIN store THEN store[key] ELSE NoContext

\* Variant: an entry that exists is kept.
cache_put_KeepFirst(store, key, context) ==
    [k \in DOMAIN store \cup {key} |->
        IF k \in DOMAIN store THEN store[k] ELSE context]

\* store[key] = context
cache_put(store, key, context) ==
    [k \in DOMAIN store \cup {key} |-> IF k = key THEN context ELSE store[k]]

\* if key in store: del store[key]
cache_clear(store, key) ==
    [k \in DOMAIN store \ {key} |-> store[k]]

\* del store[key]
del_item(store, key) ==
    IF key \in DOMAIN store
    THEN [store |-> cache_clear(store, key), exc |-> "none"]
    ELSE [store |-> store, exc |-> "KeyError"]

\* Variant: the key is deleted without the test that it is there.
MockAuthCache_clear_NoTest(store, key) == del_item(store, key)

\* OpenStackMockAuthCache.clear(key), with the exception it ends with
MockAuthCache_clear(store, key) ==
    IF key \in DOMAIN store THEN del_item(store, key)
    ELSE [store |-> store, exc |-> "none"]

----------------------------------------------------------------------------
(* One operation acts on a "world": the client's identity connection, its  *)
(* connection fields and the cache, plus what the operation did so far.    *)

\* No microversion taken apart.
NoParse ==
    [tokens |-> 0, ok |-> FALSE, service_type |-> << >>,
     microversion |-> << >>]

\* No catalog lookup.
NoQuery == [type |-> None, name |-> None, region |-> None]

World(o, cn, st) ==
    [osa |-> o, conn |-> cn, cache |-> st,
     events |-> << >>,      \* "handshake", "connect", "send", "clear"
     exc |-> "none",        \* the exception that ended the operation
     msg |-> "",            \* what it reports
     sent |-> None,         \* auth-token header of the request sent
     code |-> 0,            \* HTTP status of the answer, 0 when there is none
     newtok |-> None,       \* token obtained by this operation's handshake
     evicted |-> None,      \* token of the context this operation cleared
     query |-> NoQuery,     \* what this operation asked the catalog for
     microversion |-> NoParse,  \* what it made of the forced microversion
     api_version |-> << >>, \* OpenStack-API-Version header, << >> when none
     kwargs |-> None]       \* auth_type passed to authenticate

Raise(w, kind, msg) == [w EXCEPT !.exc = kind, !.msg = msg]

Emit(w, e) == [w EXCEPT !.events = Append(@, e)]

Count(seq, e) == Cardinality({i \in DOMAIN seq : seq[i] = e})

----------------------------------------------------------------------------
(* The identity connection: authenticate, is_token_valid, clear            *)

\* self._get_auth_url()
get_auth_url(cf) ==
    IF cf.ex_force_auth_url # None THEN cf.ex_force_auth_url ELSE cf.auth_url

\* The key a client's context is cached under: auth endpoint, credentials
\* and scope options.
CacheKey(cf) ==
    <<get_auth_url(cf), cf.user_id, cf.key, cf.ex_tenant_name>>

\* Variant: a token without an expiry is never valid.
is_token_valid_NeedsExpiry(o, t) ==
    /\ Truthy(o.auth_token)
    /\ o.auth_token_expires # NoExpiry
    /\ t + ClockSkew < o.auth_token_expires

\* True iff a token is present and, when an expiry is known,
\* now + clock_skew < expiry.
is_token_valid(o, t) ==
    /\ Truthy(o.auth_token)
    /\ \/ o.auth_token_expires = NoExpiry
       \/ t + ClockSkew < o.auth_token_expires

\* The context a successful handshake of protocol `ver` yields at time t,
\* when the service answers with lifetime hs.ttl and catalog hs.catalog; the
\* n tokens issued before it are T1..Tn.
HandshakeContext(cf, ver, hs, t, n) ==
    [auth_token |-> Tok(n + 1),
     auth_token_expires |->
        IF ver \in AUTH_VERSIONS_WITH_EXPIRES THEN t + hs.ttl ELSE NoExpiry,
     auth_user_info |-> cf.user_id,
     urls |-> hs.catalog]

\* Variant: the external cache is never read.
CachedContext_MemoryOnly(w, cf) == w.osa

\* The cached context authenticate() looks at: the external cache's entry
\* when a cache was supplied and holds one, else the in-memory context.
CachedContext(w, cf) ==
    IF cf.ex_auth_cache /\ CacheKey(cf) \in DOMAIN w.cache
    THEN cache_get(w.cache, CacheKey(cf))
    ELSE w.osa

\* authenticate(force): reuse a valid cached context unless forced;
\* otherwise perform the handshake and, on success only, store the context.
authenticate(w, cf, ver, force, hs, t, n) ==
    IF ~force /\ is_token_valid(CachedContext(w, cf), t)
    THEN [w EXCEPT !.osa = CachedContext(w, cf)]
    ELSE LET w1 == Emit(w, "handshake") IN
         IF hs.result = "ok"
         THEN LET ctx == HandshakeContext(cf, ver, hs, t, n) IN
              [w1 EXCEPT !.osa = ctx,
                         !.newtok = ctx.auth_token,
                         !.cache = IF cf.ex_auth_cache
                                   THEN cache_put(@, CacheKey(cf), ctx)
                                   ELSE @]
         ELSE IF hs.result = "rejected"
         THEN Raise(w1, "InvalidCredsError", "handshake rejected")
         ELSE Raise(w1, "MalformedResponseError", "handshake undecodable")

\* clear_cached_auth_context(): drop the in-memory context and the cache
\* entry of this client's key.
clear_cached_auth_context(w, cf) ==
    [Emit(w, "clear") EXCEPT
        !.osa = NoContext,
        !.evicted = w.osa.auth_token,
        !.cache = IF cf.ex_auth_cache THEN cache_clear(@, CacheKey(cf)) ELSE @]

----------------------------------------------------------------------------
(* The service catalog                                                     *)

NoCatalog == [parsed |-> FALSE, entries |-> << >>]

\* OpenStackServiceCatalog(service_catalog=osa.urls, ...): the entries, in
\* the order of the source.
OpenStackServiceCatalog(urls) == [parsed |-> TRUE, entries |-> urls]

\* Variant: when no entry of the service is in the region, the first entry
\* of the service is returned.
catalog_get_endpoint_Fallback(entries, service_type, name, region) ==
    LET match == {i \in DOMAIN entries :
                    entries[i].type = service_type /\ entries[i].name = name}
        inRegion == {i \in match : entries[i].region = region}
        Min(S) == CHOOSE i \in S : \A j \in S : i <= j
    IN IF inRegion # {} THEN entries[Min(inRegion)].url
       ELSE IF match # {} THEN entries[Min(match)].url
       ELSE NoUrl

\* service_catalog.get_endpoint(service_type, name, region): the first entry,
\* in the order of the source, of that type, name and region; no URL when
\* there is none, also when other regions have entries of the service.
catalog_get_endpoint(entries, service_type, name, region) ==
    LET match == {i \in DOMAIN entries :
                    entries[i].type = service_type /\ entries[i].name = name}
        inRegion == {i \in match : entries[i].region = region}
        Min(S) == CHOOSE i \in S : \A j \in S : i <= j
    IN IF inRegion # {} THEN entries[Min(inRegion)].url
       ELSE NoUrl

\* Variant: the forced region is not looked at.
EndpointQuery_DefaultRegion(cf) ==
    [type |-> IF Truthy(cf.ex_force_service_type)
              THEN cf.ex_force_service_type ELSE cf.service_type,
     name |-> IF Truthy(cf.ex_force_service_name)
              THEN cf.ex_force_service_name ELSE cf.service_name,
     region |-> cf.service_region]

\* Variant: the forced name is used only with a forced type.
EndpointQuery_NameWithType(cf) ==
    [type |-> IF Truthy(cf.ex_force_service_type)
              THEN cf.ex_force_service_type ELSE cf.service_type,
     name |-> IF Truthy(cf.ex_force_service_type)
                 /\ Truthy(cf.ex_force_service_name)
              THEN cf.ex_force_service_name ELSE cf.service_name,
     region |-> IF Truthy(cf.ex_force_service_region)
                THEN cf.ex_force_service_region ELSE cf.service_region]

\* get_endpoint(): the forced type, name and region, each over the
\* provider's default.
EndpointQuery(cf) ==
    [type |-> IF Truthy(cf.ex_force_service_type)
              THEN cf.ex_force_service_type ELSE cf.service_type,
     name |-> IF Truthy(cf.ex_force_service_name)
              THEN cf.ex_force_service_name ELSE cf.service_name,
     region |-> IF Truthy(cf.ex_force_service_region)
                THEN cf.ex_force_service_region ELSE cf.service_region]

\* get_endpoint(): query the catalog; the caller fails on an empty URL.
get_endpoint(cf, catalog) ==
    LET q == EndpointQuery(cf)
    IN catalog_get_endpoint(catalog.entries, q.type, q.name, q.region)

----------------------------------------------------------------------------
(* The connection                                                          *)

\* self._tuple_from_url(url): (host, port, secure, request_path), the port
\* defaulting to the scheme's.
tuple_from_url(u) ==
    [host |-> u.host,
     port |-> IF u.port # 0 THEN u.port
              ELSE IF u.scheme = "https" THEN 443 ELSE 80,
     secure |-> (u.scheme = "https"),
     request_path |-> u.path]

\* Variant: the path is compared as well.
set_up_connection_info_ComparesPath(w, url) ==
    LET prev_conn == <<w.conn.host, w.conn.port, w.conn.secure,
                       w.conn.request_path>>
        result == tuple_from_url(url)
        new_conn == <<result.host, result.port, result.secure,
                      result.request_path>>
        w1 == [w EXCEPT !.conn.host = result.host,
                        !.conn.port = result.port,
                        !.conn.secure = result.secure,
                        !.conn.request_path = result.request_path]
    IN IF new_conn # prev_conn THEN Emit(w1, "connect") ELSE w1

\* _set_up_connection_info(url): adopt the URL's parts; connect() only when
\* host, port or scheme changed.
set_up_connection_info(w, url) ==
    LET prev_conn == <<w.conn.host, w.conn.port, w.conn.secure>>
        result == tuple_from_url(url)
        new_conn == <<result.host, result.port, result.secure>>
        w1 == [w EXCEPT !.conn.host = result.host,
                        !.conn.port = result.port,
                        !.conn.secure = result.secure,
                        !.conn.request_path = result.request_path]
    IN IF new_conn # prev_conn THEN Emit(w1, "connect") ELSE w1

\* The keyword arguments _populate_hosts_and_request_paths passes to
\* authenticate.
AuthKwargs(ver) ==
    IF ver = "2.0_apikey" THEN "api_key"
    ELSE IF ver = "2.0_password" THEN "password"
    ELSE None

\* Variant: the forced token is ignored and the client always authenticates.
SkipsAuthentication_Never(cf) == FALSE

\* Variant: the test of the forced token is inverted.
SkipsAuthentication_Inverted(cf) == ~Truthy(cf.ex_force_auth_token)

\* Variant: a forced base URL alone skips authentication too.
SkipsAuthentication_OnBaseUrl(cf) ==
    Truthy(cf.ex_force_auth_token) \/ UrlTruthy(cf.ex_force_base_url)

\* Whether _populate_hosts_and_request_paths skips authentication.
SkipsAuthentication(cf) == Truthy(cf.ex_force_auth_token)

\* Variant: only the presence of a token is tested, not its expiry.
NeedsAuthentication_IgnoresExpiry(o, t) == ~Truthy(o.auth_token)

\* Whether _populate_hosts_and_request_paths authenticates: the token is not
\* available or it has expired.
NeedsAuthentication(o, t) == ~is_token_valid(o, t)

\* Variant: the new token is not copied to the connection.
Reauthenticate_NoCopy(w, cf, ver, hs, t, n) ==
    LET wa == authenticate(w, cf, ver, FALSE, hs, t, n)
    IN IF wa.exc # "none" THEN wa
       ELSE [wa EXCEPT
                !.conn.auth_token_expires = wa.osa.auth_token_expires,
                !.conn.auth_user_info = wa.osa.auth_user_info,
                !.conn.service_catalog = OpenStackServiceCatalog(wa.osa.urls)]

\* Variant: the connection's token is dropped before the handshake is tried.
Reauthenticate_ClearFirst(w, cf, ver, hs, t, n) ==
    LET wa == authenticate([w EXCEPT !.conn.auth_token = None],
                           cf, ver, FALSE, hs, t, n)
    IN IF wa.exc # "none" THEN wa
       ELSE [wa EXCEPT
                !.conn.auth_token = wa.osa.auth_token,
                !.conn.auth_token_expires = wa.osa.auth_token_expires,
                !.conn.auth_user_info = wa.osa.auth_user_info,
                !.conn.service_catalog = OpenStackServiceCatalog(wa.osa.urls)]

\* Variant: the catalog of the new context is not taken over.
Reauthenticate_NoCatalog(w, cf, ver, hs, t, n) ==
    LET wa == authenticate([w EXCEPT !.kwargs = AuthKwargs(ver)],
                           cf, ver, FALSE, hs, t, n)
    IN IF wa.exc # "none" THEN wa
       ELSE [wa EXCEPT
                !.conn.auth_token = wa.osa.auth_token,
                !.conn.auth_token_expires = wa.osa.auth_token_expires,
                !.conn.auth_user_info = wa.osa.auth_user_info]

\* The part of _populate_hosts_and_request_paths that runs when the token is
\* not valid: authenticate, then copy token, expiry, user info and catalog.
Reauthenticate(w, cf, ver, hs, t, n) ==
    LET wa == authenticate([w EXCEPT !.kwargs = AuthKwargs(ver)],
                           cf, ver, FALSE, hs, t, n)
    IN IF wa.exc # "none" THEN wa
       ELSE [wa EXCEPT
                !.conn.auth_token = wa.osa.auth_token,
                !.conn.auth_token_expires = wa.osa.auth_token_expires,
                !.conn.auth_user_info = wa.osa.auth_user_info,
                !.conn.service_catalog = OpenStackServiceCatalog(wa.osa.urls)]

\* Variant: the catalog is asked even when a base URL is forced.
SelectsForcedBaseUrl_Never(cf) == FALSE

\* self._ex_force_base_url or self.get_endpoint()
SelectsForcedBaseUrl(cf) == UrlTruthy(cf.ex_force_base_url)

\* The end of _populate_hosts_and_request_paths: the forced base URL or the
\* catalog's endpoint becomes the connection's host, port and path.
SetUpEndpoint(w1, cf) ==
    LET forced == SelectsForcedBaseUrl(cf)
        url == IF forced THEN cf.ex_force_base_url
               ELSE get_endpoint(cf, w1.conn.service_catalog)
        w2 == IF forced THEN w1
              ELSE [Emit(w1, "lookup") EXCEPT !.query = EndpointQuery(cf)]
    IN IF ~UrlTruthy(url)
       THEN Raise(w2, "LibcloudError", "Could not find specified endpoint")
       ELSE set_up_connection_info(w2, url)

AuthClassMissing_Never(ver) == FALSE

\* get_auth_class(): the handshake class is looked up from the version the
\* first time it is needed; an unknown version has no class
AuthClassMissing(ver) == ver \notin SupportedAuthVersions

\* _populate_hosts_and_request_paths()
populate_hosts_and_request_paths(w, cf, ver, hs, t, n) ==
    IF AuthClassMissing(ver)
    THEN Raise(w, "LibcloudError", "unsupported auth version")
    ELSE IF SkipsAuthentication(cf)
    THEN set_up_connection_info(w, cf.ex_force_base_url)
    ELSE LET w1 == IF NeedsAuthentication(w.osa, t)
                   THEN Reauthenticate(w, cf, ver, hs, t, n)
                   ELSE w
         IN IF w1.exc # "none" THEN w1 ELSE SetUpEndpoint(w1, cf)

COMPUTE == <<"c", "o", "m", "p", "u", "t", "e">>

\* Variant: everything after the first token is taken for the version.
ParseMicroversion_AtLeastTwo(s) ==
    LET microversion == split(strip(s)) IN
    IF Len(microversion) >= 2
    THEN [tokens |-> Len(microversion), ok |-> TRUE,
          service_type |-> microversion[1], microversion |-> microversion[2]]
    ELSE IF Len(microversion) = 1
    THEN [tokens |-> 1, ok |-> TRUE, service_type |-> COMPUTE,
          microversion |-> microversion[1]]
    ELSE [NoParse EXCEPT !.tokens = Len(microversion)]

\* add_default_headers: the forced microversion split on whitespace; two
\* tokens are service and version, one is the version of "compute"; with any
\* other number of tokens there is neither.
ParseMicroversion(s) ==
    LET microversion == split(strip(s)) IN
    IF Len(microversion) = 2
    THEN [tokens |-> 2, ok |-> TRUE,
          service_type |-> microversion[1], microversion |-> microversion[2]]
    ELSE IF Len(microversion) = 1
    THEN [tokens |-> 1, ok |-> TRUE, service_type |-> COMPUTE,
          microversion |-> microversion[1]]
    ELSE [NoParse EXCEPT !.tokens = Len(microversion)]

\* add_default_headers: the auth-token header is self.auth_token; with a
\* forced microversion, the OpenStack-API-Version header when
\* self.service_type starts with the microversion's service, and an error
\* when the microversion is neither one nor two tokens.
add_default_headers(w, cf) ==
    LET w1 == [w EXCEPT !.sent = w.conn.auth_token] IN
    IF cf.ex_force_microversion = << >> THEN w1
    ELSE LET parsed == ParseMicroversion(cf.ex_force_microversion)
             w2 == [w1 EXCEPT !.microversion = parsed]
         IN IF ~parsed.ok
            THEN Raise(w2, "LibcloudError",
                       "Invalid microversion format: servicename X.XX")
            ELSE IF /\ Truthy(cf.service_type)
                    /\ StartsWith(Chars(cf.service_type), parsed.service_type)
            THEN [w2 EXCEPT !.api_version =
                    parsed.service_type \o <<" ">> \o parsed.microversion]
            ELSE w2

\* The transport's answers: an HTTP status, or no answer at all (code 0).
Responses == {200, UNAUTHORIZED, 500, 0}

\* Variant: the test of the forced token is inverted.
EvictsOn_WhenForced(cf, code) ==
    code = UNAUTHORIZED /\ cf.ex_force_auth_token # None

\* Variant: every Unauthorized answer evicts.
EvictsOn_Always(cf, code) == code = UNAUTHORIZED

\* Variant: every HTTP error evicts.
EvictsOn_AnyHttpError(cf, code) == cf.ex_force_auth_token = None

\* Whether request() evicts the cached context for the error it caught.
EvictsOn(cf, code) ==
    code = UNAUTHORIZED /\ cf.ex_force_auth_token = None

\* request(): the base class's request (populate, headers, one exchange),
\* then eviction on an Unauthorized HTTP error, and the error re-raised.
request(w, cf, ver, hs, resp, t, n) ==
    LET w1 == populate_hosts_and_request_paths(w, cf, ver, hs, t, n) IN
    IF w1.exc # "none" THEN w1
    ELSE LET wh == add_default_headers(w1, cf)
             w2 == [Emit(wh, "send") EXCEPT !.code = resp]
         IN
         IF wh.exc # "none" THEN wh
         ELSE IF resp = 200 THEN w2
         ELSE IF resp = 0 THEN Raise(w2, "TransportError", "no response")
         ELSE LET w3 == IF EvictsOn(cf, resp)
                        THEN clear_cached_auth_context(w2, cf)
                        ELSE w2
              IN Raise(w3, "BaseHTTPError", "http error")

----------------------------------------------------------------------------
(* State, construction and the operations as actions                       *)

\* Fields of a connection before __init__ has run (class attributes).
NoConn ==
    [auth_token |-> None, auth_token_expires |-> NoExpiry,
     auth_user_info |-> None, service_catalog |-> NoCatalog,
     host |-> None, port |-> 443, secure |-> TRUE, request_path |-> ""]

NoConfig == CHOOSE cf \in ConfigFields :
    /\ cf.auth_url = None /\ cf.ex_force_auth_version = None
    /\ cf.ex_force_auth_token = None /\ cf.ex_force_base_url = NoUrl
    /\ ~cf.ex_auth_cache

\* The record of "no operation yet".
NoCall ==
    [op |-> "none", force |-> FALSE, events |-> << >>, exc |-> "none",
     msg |-> "", sent |-> None, code |-> 0, newtok |-> None,
     evicted |-> None, query |-> NoQuery, microversion |-> NoParse,
     api_version |-> << >>, pre_tok |-> None,
     pre_fresh |-> FALSE, pre_path |-> "", prev_op |-> "none",
     prev_evicted |-> None]

\* What the identity service may answer to a handshake: a token with a
\* lifetime and the deployment's catalog, a rejection, or an undecodable body.
Handshakes(cat) ==
    [result : {"ok"}, ttl : TTLs, catalog : {cat}]
    \cup [result : {"rejected", "malformed"}, ttl : {0}, catalog : {cat}]

\* A client that has no call in progress.  A call in progress remembers the
\* context its handshake produced, what it did so far, and the token of the
\* valid context the cache held when it looked (history).
NoRun ==
    [pc |-> "idle", op |-> "populate", ctx |-> NoContext, events |-> << >>,
     newtok |-> None, found |-> None, sent |-> None, code |-> 0]

\* No operation on the cache yet.
NoStoreOp ==
    [op |-> "none", key |-> None, exc |-> "none", before |-> << >>,
     prev_op |-> "none", prev_key |-> None]

\* The ways _wait_for_task_completion fails by itself.
Failures == {"error", "canceled", "timeout"}

\* A waiter that has not been called.
NoWait ==
    [pc |-> "idle", start_time |-> 0, timeout |-> 0, status |-> None,
     error_elem |-> [present |-> FALSE, message |-> None],
     polls |-> 0, seen |-> {}, observed |-> << >>, outcome |-> "none",
     exc |-> [kind |-> "none", text |-> "", error_msg |-> None]]

\* A driver that runs no operation.
\* A keyword argument that was not passed or is None.
Absent(default) == [given |-> FALSE, value |-> default]

\* A keyword argument passed with a value.
Given(value) == [given |-> TRUE, value |-> value]

\* create_node(**kwargs) without any of the VM parameters
NoVmParams ==
    [ex_vm_names |-> Absent(<< >>), ex_vm_cpu |-> Absent(0),
     ex_vm_memory |-> Absent(0), ex_vm_fence |-> Absent(""),
     ex_vm_ipmode |-> Absent(""), ex_vm_script |-> Absent("")]

NoDriverCall ==
    [op |-> "none", pc |-> "idle", ex_deploy |-> FALSE, shutdown |-> FALSE,
     action |-> None, retry |-> 0, slept |-> 0, log |-> << >>,
     exc |-> "none", kwargs |-> NoVmParams, requested |-> FALSE,
     status |-> 0, result |-> FALSE]

\* No vCloud driver constructed: the class attributes token = None and
\* org = None, and no call made.
NoVCloud ==
    [api_version |-> None, token |-> None, org |-> None, op |-> "none",
     exc |-> "none", logins |-> 0, sent |-> << >>, pre_token |-> None,
     total |-> 0,
     reply |-> [answered |-> FALSE, header |-> None, parses |-> FALSE,
                link |-> FALSE]]

\* The state before any client is constructed, whatever the deployment.
InitState ==
    /\ clock = 0
    /\ wait = NoWait
    /\ raised = [f \in Failures |-> {}]
    /\ drv = NoDriverCall
    /\ vc = NoVCloud
    /\ now = 0
    /\ phase = [c \in Clients |-> "unbuilt"]
    /\ cfg = [c \in Clients |-> NoConfig]
    /\ auth_version = [c \in Clients |-> None]
    /\ conn = [c \in Clients |-> NoConn]
    /\ osa = [c \in Clients |-> NoContext]
    /\ cache = << >>
    /\ issued = 0
    /\ last = [c \in Clients |-> NoCall]
    /\ run = [c \in Clients |-> NoRun]
    /\ writes = << >>
    /\ mock = NoStoreOp

Init == InitState /\ served \in Catalogs

\* Variant: the test of the forced token is missing.
ConstructionError_OnlyAuthUrl(cf) == ~Truthy(get_auth_url(cf))

\* __init__: a forced token needs a forced base URL; an auth URL is needed.
ConstructionError(cf) ==
    \/ Truthy(cf.ex_force_auth_token) /\ ~UrlTruthy(cf.ex_force_base_url)
    \/ ~Truthy(get_auth_url(cf))

\* __init__: self._auth_version
InitAuthVersion(cf) ==
    IF Truthy(cf.ex_force_auth_version) THEN cf.ex_force_auth_version
    ELSE AUTH_API_VERSION

\* __init__: self.auth_token
InitAuthToken(cf) ==
    IF Truthy(cf.ex_force_auth_token) THEN cf.ex_force_auth_token ELSE None

\* OpenStackBaseConnection(user_id, key, ex_force_...=...)
Construct(c, cf) ==
    /\ phase[c] = "unbuilt"
    /\ cfg' = [cfg EXCEPT ![c] = cf]
    /\ IF ConstructionError(cf)
       THEN /\ phase' = [phase EXCEPT ![c] = "config_error"]
            /\ last' = [last EXCEPT ![c] =
                          [NoCall EXCEPT !.op = "init", !.exc = "LibcloudError"]]
            /\ UNCHANGED <<auth_version, conn>>
       ELSE /\ phase' = [phase EXCEPT ![c] = "ready"]
            /\ auth_version' = [auth_version EXCEPT ![c] = InitAuthVersion(cf)]
            /\ conn' = [conn EXCEPT ![c].auth_token = InitAuthToken(cf)]
            /\ last' = [last EXCEPT ![c] = [NoCall EXCEPT !.op = "init"]]
    /\ UNCHANGED <<now, osa, cache, issued, served, run, writes, mock,
                   waitVars, drvVars, vcVars>>

\* The state an operation of client c leaves, and its record.
Apply(c, op, force, w) ==
    /\ osa' = [osa EXCEPT ![c] = w.osa]
    /\ conn' = [conn EXCEPT ![c] = w.conn]
    /\ cache' = w.cache
    /\ issued' = IF w.newtok # None THEN issued + 1 ELSE issued
    /\ last' = [last EXCEPT ![c] =
          [op |-> op, force |-> force, events |-> w.events, exc |-> w.exc,
           msg |-> w.msg, sent |-> w.sent, code |-> w.code,
           newtok |-> w.newtok, evicted |-> w.evicted, query |-> w.query,
           microversion |-> w.microversion, api_version |-> w.api_version,
           pre_tok |-> osa[c].auth_token,
           pre_fresh |-> \/ osa[c].auth_token_expires = NoExpiry
                         \/ now + ClockSkew < osa[c].auth_token_expires,
           pre_path |-> conn[c].request_path,
           prev_op |-> last[c].op,
           prev_evicted |-> last[c].evicted]]
    /\ UNCHANGED <<now, phase, cfg, auth_version, served, run, writes, mock,
                   waitVars, drvVars, vcVars>>

\* The identity service issues at most MaxIssue tokens.
MayAnswer(hs) == hs.result = "ok" => issued < MaxIssue

\* connection.request(action)
Request(c) ==
    /\ phase[c] = "ready"
    /\ \E hs \in Handshakes(served), resp \in Responses :
        /\ MayAnswer(hs)
        /\ Apply(c, "request", FALSE,
                 request(World(osa[c], conn[c], cache), cfg[c],
                         auth_version[c], hs, resp, now, issued))

\* connection._populate_hosts_and_request_paths()
Populate(c) ==
    /\ phase[c] = "ready"
    /\ \E hs \in Handshakes(served) :
        /\ MayAnswer(hs)
        /\ Apply(c, "populate", FALSE,
                 populate_hosts_and_request_paths(
                     World(osa[c], conn[c], cache), cfg[c], auth_version[c],
                     hs, now, issued))

\* connection.get_auth_class().authenticate(force=force)
Authenticate(c) ==
    /\ phase[c] = "ready"
    /\ auth_version[c] \in SupportedAuthVersions
    /\ \E hs \in Handshakes(served), force \in BOOLEAN :
        /\ MayAnswer(hs)
        /\ Apply(c, "authenticate", force,
                 authenticate(World(osa[c], conn[c], cache), cfg[c],
                              auth_version[c], force, hs, now, issued))

\* Time passes.
Tick ==
    /\ now < MaxTime
    /\ now' = now + 1
    /\ UNCHANGED <<phase, cfg, auth_version, conn, osa, cache, issued, served,
                   last, run, writes, mock,
                   waitVars, drvVars, vcVars>>

\* One client and the operations of its connection.
Next ==
    \/ \E cf \in Configs : Construct("c1", cf)
    \/ Request("c1")
    \/ Populate("c1")
    \/ Tick

Spec == Init /\ [][Next]_vars

\* One client that authenticates, whose caller also uses the identity
\* connection directly (get_auth_class().authenticate()).
InitIdentity == Init /\ served = CatalogA

NextIdentity ==
    \/ \E cf \in IdentityConfigs : Construct("c1", cf)
    \/ Request("c1")
    \/ Populate("c1")
    \/ Authenticate("c1")
    \/ Tick

SpecIdentity == InitIdentity /\ [][NextIdentity]_vars

\* One client that authenticates and picks its endpoint from the catalog of
\* the deployment, at one moment in time.
InitEndpoint == InitState /\ served \in EndpointCatalogs

NextEndpoint ==
    \/ \E cf \in EndpointConfigs : Construct("c1", cf)
    \/ Request("c1")
    \/ Populate("c1")

SpecEndpoint == InitEndpoint /\ [][NextEndpoint]_vars

\* One client with a forced microversion.
InitMicroversion == InitState /\ served = CatalogFull

NextMicroversion ==
    \/ \E cf \in MicroversionConfigs : Construct("c1", cf)
    \/ Request("c1")
    \/ Populate("c1")

SpecMicroversion == InitMicroversion /\ [][NextMicroversion]_vars

\* The configuration of the specification of the connection: a client that
\* authenticates and takes its endpoint from the catalog.
ConnectionConfigs ==
    {cf \in ConfigFields :
        /\ cf.auth_url # None
        /\ cf.ex_force_auth_version = None
        /\ cf.ex_force_auth_token = None
        /\ cf.ex_force_base_url = NoUrl
        /\ ~cf.ex_auth_cache}

\* The deployment moves the service: the next authentication response
\* carries another catalog.
Redeploy ==
    /\ \E cat \in ConnectionCatalogs \ {served} : served' = cat
    /\ UNCHANGED <<now, phase, cfg, auth_version, conn, osa, cache, issued,
                   last, run, writes, mock, waitVars, drvVars, vcVars>>

\* One client whose endpoint moves between its calls, at one moment in time.
InitConnection == InitState /\ served \in ConnectionCatalogs

NextConnection ==
    \/ \E cf \in ConnectionConfigs : Construct("c1", cf)
    \/ Request("c1")
    \/ Populate("c1")
    \/ Redeploy

SpecConnection == InitConnection /\ [][NextConnection]_vars

----------------------------------------------------------------------------
(* Two clients whose calls interleave, at one moment in time.              *)
(* _populate_hosts_and_request_paths takes no lock: between its test of    *)
(* the token, the cache lookup, the handshake, the write of the context    *)
(* and the copy to the connection, another client's call may run.          *)

\* The configurations of two clients of one account: the same auth URL and
\* credentials, hence the same cache key, with or without the shared cache.
SharedConfigs ==
    {cf \in ConfigFields :
        /\ cf.auth_url # None
        /\ cf.ex_force_auth_version = None
        /\ cf.ex_force_auth_token = None
        /\ cf.ex_force_base_url = NoUrl}

\* The record of a call that ran step by step.
StepRecord(c, r, exc, msg, q) ==
    [NoCall EXCEPT !.op = r.op, !.events = r.events, !.exc = exc,
                   !.msg = msg, !.newtok = r.newtok, !.query = q,
                   !.sent = r.sent, !.code = r.code,
                   !.prev_op = last[c].op]

\* _populate_hosts_and_request_paths(): osa.is_token_valid()
PopulateBegin(c) ==
    /\ phase[c] = "ready"
    /\ run[c].pc = "idle"
    /\ ~AuthClassMissing(auth_version[c])
    /\ ~SkipsAuthentication(cfg[c])
    /\ run' = [run EXCEPT ![c] =
                 [NoRun EXCEPT !.pc = IF NeedsAuthentication(osa[c], now)
                                      THEN "lookup" ELSE "endpoint"]]
    /\ UNCHANGED <<now, phase, cfg, auth_version, conn, osa, cache, issued,
                   served, last, writes, mock,
                   waitVars, drvVars, vcVars>>

\* authenticate(): the look at the cached context
AuthLookup(c) ==
    /\ run[c].pc = "lookup"
    /\ LET w == World(osa[c], conn[c], cache)
           ctx == CachedContext(w, cfg[c])
           key == CacheKey(cfg[c])
           found == IF /\ cfg[c].ex_auth_cache
                       /\ key \in DOMAIN cache
                       /\ is_token_valid(cache[key], now)
                    THEN cache[key].auth_token ELSE None
       IN IF is_token_valid(ctx, now)
          THEN /\ osa' = [osa EXCEPT ![c] = ctx]
               /\ run' = [run EXCEPT ![c].pc = "copy", ![c].found = found]
          ELSE /\ run' = [run EXCEPT ![c].pc = "handshake",
                                     ![c].found = found]
               /\ UNCHANGED osa
    /\ UNCHANGED <<now, phase, cfg, auth_version, conn, cache, issued,
                   served, last, writes, mock,
                   waitVars, drvVars, vcVars>>

\* authenticate(): the handshake with the identity service
AuthHandshake(c) ==
    /\ run[c].pc = "handshake"
    /\ \E hs \in Handshakes(served) :
        /\ MayAnswer(hs)
        /\ LET r == [run[c] EXCEPT !.events = Append(@, "handshake")] IN
           IF hs.result = "ok"
           THEN LET ctx == HandshakeContext(cfg[c], auth_version[c], hs, now,
                                            issued) IN
                /\ run' = [run EXCEPT ![c] =
                             [r EXCEPT !.pc = "store", !.ctx = ctx,
                                       !.newtok = ctx.auth_token]]
                /\ issued' = issued + 1
                /\ UNCHANGED last
           ELSE /\ run' = [run EXCEPT ![c] = [r EXCEPT !.pc = "idle"]]
                /\ last' = [last EXCEPT ![c] =
                      IF hs.result = "rejected"
                      THEN StepRecord(c, r, "InvalidCredsError",
                                      "handshake rejected", NoQuery)
                      ELSE StepRecord(c, r, "MalformedResponseError",
                                      "handshake undecodable", NoQuery)]
                /\ UNCHANGED issued
    /\ UNCHANGED <<now, phase, cfg, auth_version, conn, osa, cache, served,
                   writes, mock,
                   waitVars, drvVars, vcVars>>

\* authenticate(): the new context is kept and put into the cache
AuthStore(c) ==
    /\ run[c].pc = "store"
    /\ osa' = [osa EXCEPT ![c] = run[c].ctx]
    /\ IF cfg[c].ex_auth_cache
       THEN /\ cache' = cache_put(cache, CacheKey(cfg[c]), run[c].ctx)
            /\ writes' = Append(writes, run[c].ctx.auth_token)
       ELSE UNCHANGED <<cache, writes>>
    /\ run' = [run EXCEPT ![c].pc = "copy"]
    /\ UNCHANGED <<now, phase, cfg, auth_version, conn, issued, served, last,
                   mock, waitVars, drvVars, vcVars>>

\* _populate_hosts_and_request_paths(): token, expiry, user info and catalog
\* are copied from the identity connection
PopulateCopy(c) ==
    /\ run[c].pc = "copy"
    /\ conn' = [conn EXCEPT
                  ![c].auth_token = osa[c].auth_token,
                  ![c].auth_token_expires = osa[c].auth_token_expires,
                  ![c].auth_user_info = osa[c].auth_user_info,
                  ![c].service_catalog = OpenStackServiceCatalog(osa[c].urls)]
    /\ run' = [run EXCEPT ![c].pc = "endpoint"]
    /\ UNCHANGED <<now, phase, cfg, auth_version, osa, cache, issued, served,
                   last, writes, mock,
                   waitVars, drvVars, vcVars>>

\* _populate_hosts_and_request_paths(): the endpoint is looked up and the
\* connection set up; the call ends
PopulateEnd(c) ==
    /\ run[c].pc = "endpoint"
    /\ LET w == SetUpEndpoint(
                    [World(osa[c], conn[c], cache) EXCEPT
                        !.events = run[c].events], cfg[c])
       IN /\ conn' = [conn EXCEPT ![c] = w.conn]
          /\ IF run[c].op = "request" /\ w.exc = "none"
             THEN /\ run' = [run EXCEPT ![c].pc = "send",
                                        ![c].events = w.events]
                  /\ UNCHANGED last
             ELSE /\ run' = [run EXCEPT ![c].pc = "idle"]
                  /\ last' = [last EXCEPT ![c] =
                        StepRecord(c, [run[c] EXCEPT !.events = w.events],
                                   w.exc, w.msg, w.query)]
    /\ UNCHANGED <<now, phase, cfg, auth_version, osa, cache, issued, served,
                   writes, mock,
                   waitVars, drvVars, vcVars>>

InitConcurrent == InitState /\ served = CatalogA

NextConcurrent ==
    \/ \E c \in Clients, cf \in SharedConfigs :
          Construct(c, cf)
    \/ \E c \in Clients :
          \/ PopulateBegin(c)
          \/ AuthLookup(c)
          \/ AuthHandshake(c)
          \/ AuthStore(c)
          \/ PopulateCopy(c)
          \/ PopulateEnd(c)

SpecConcurrent == InitConcurrent /\ [][NextConcurrent]_vars

\* The configuration of two clients that share the external cache.
EvictConfigs == {cf \in SharedConfigs : cf.ex_auth_cache}

\* The answers told apart here: success, Unauthorized, another HTTP error.
EvictResponses == {200, UNAUTHORIZED, 500}

\* request(): as PopulateBegin, for a call that goes on to send a request
RequestBegin(c) ==
    /\ phase[c] = "ready"
    /\ run[c].pc = "idle"
    /\ ~AuthClassMissing(auth_version[c])
    /\ ~SkipsAuthentication(cfg[c])
    /\ run' = [run EXCEPT ![c] =
                 [NoRun EXCEPT !.op = "request",
                               !.pc = IF NeedsAuthentication(osa[c], now)
                                      THEN "lookup" ELSE "endpoint"]]
    /\ UNCHANGED <<now, phase, cfg, auth_version, conn, osa, cache, issued,
                   served, last, writes, mock, waitVars, drvVars, vcVars>>

\* request(): the request goes out with the connection's token and the
\* answer comes back; an Unauthorized answer is caught
RequestExchange(c) ==
    /\ run[c].pc = "send"
    /\ \E resp \in EvictResponses :
          LET r == [run[c] EXCEPT !.events = Append(@, "send"),
                                  !.sent = conn[c].auth_token,
                                  !.code = resp]
          IN IF resp # 200 /\ resp # 0 /\ EvictsOn(cfg[c], resp)
             THEN /\ run' = [run EXCEPT ![c] = [r EXCEPT !.pc = "evict"]]
                  /\ UNCHANGED last
             ELSE /\ run' = [run EXCEPT ![c] = [r EXCEPT !.pc = "idle"]]
                  /\ last' = [last EXCEPT ![c] =
                        IF resp = 200
                        THEN StepRecord(c, r, "none", "", NoQuery)
                        ELSE IF resp = 0
                        THEN StepRecord(c, r, "TransportError",
                                        "no response", NoQuery)
                        ELSE StepRecord(c, r, "BaseHTTPError", "http error",
                                        NoQuery)]
    /\ UNCHANGED <<now, phase, cfg, auth_version, conn, osa, cache, issued,
                   served, writes, mock, waitVars, drvVars, vcVars>>

\* request(): self.get_auth_class().clear_cached_auth_context(); raise
RequestEvict(c) ==
    /\ run[c].pc = "evict"
    /\ LET w == clear_cached_auth_context(
                    [World(osa[c], conn[c], cache) EXCEPT
                        !.events = run[c].events], cfg[c])
       IN /\ osa' = [osa EXCEPT ![c] = w.osa]
          /\ cache' = w.cache
          /\ last' = [last EXCEPT ![c] =
                [StepRecord(c, [run[c] EXCEPT !.events = w.events],
                            "BaseHTTPError", "http error", NoQuery)
                    EXCEPT !.evicted = w.evicted]]
    /\ run' = [run EXCEPT ![c].pc = "idle"]
    /\ UNCHANGED <<now, phase, cfg, auth_version, conn, issued, served,
                   writes, mock, waitVars, drvVars, vcVars>>

\* Two clients whose requests interleave.
NextEvict ==
    \/ \E c \in Clients, cf \in EvictConfigs : Construct(c, cf)
    \/ \E c \in Clients :
          \/ RequestBegin(c)
          \/ AuthLookup(c)
          \/ AuthHandshake(c)
          \/ AuthStore(c)
          \/ PopulateCopy(c)
          \/ PopulateEnd(c)
          \/ RequestExchange(c)
          \/ RequestEvict(c)

SpecEvict == InitConcurrent /\ [][NextEvict]_vars

----------------------------------------------------------------------------
(* The cache on its own: put and clear on any keys                         *)

StoreKeys == {"key-a", "key-b", "key-c"}

\* The contexts put: of the first and of the second token.
StoreContexts ==
    {[NoContext EXCEPT !.auth_token = Tok(n), !.auth_user_info = "u"] :
        n \in 1..2}

StoreOp(op, key, exc) ==
    [op |-> op, key |-> key, exc |-> exc, before |-> cache,
     prev_op |-> mock.op, prev_key |-> mock.key]

\* cache.put(key, context)
MockPut(key, context) ==
    /\ cache' = cache_put(cache, key, context)
    /\ mock' = StoreOp("put", key, "none")
    /\ UNCHANGED <<now, phase, cfg, auth_version, conn, osa, issued, served,
                   last, run, writes, waitVars, drvVars, vcVars>>

\* cache.clear(key)
MockClear(key) ==
    /\ LET r == MockAuthCache_clear(cache, key)
       IN /\ cache' = r.store
          /\ mock' = StoreOp("clear", key, r.exc)
    /\ UNCHANGED <<now, phase, cfg, auth_version, conn, osa, issued, served,
                   last, run, writes, waitVars, drvVars, vcVars>>

InitStore == InitState /\ served = CatalogA

NextStore ==
    \/ \E key \in StoreKeys, context \in StoreContexts : MockPut(key, context)
    \/ \E key \in StoreKeys : MockClear(key)

SpecStore == InitStore /\ [][NextStore]_vars

----------------------------------------------------------------------------
(* The task waiter: VCloudNodeDriver._wait_for_task_completion             *)

\* time.sleep(5)
SLEEP_SECONDS == 5

\* The timeouts callers wait with, in seconds.
Timeouts == {0, 5, 7, 11}

\* The status attribute of a task response; None when it is missing.
Statuses == {"queued", "running", "success", "error", "canceled", None}

\* The Error element of a task response: absent, without a message
\* attribute, or with one.
NoErrorElem == [present |-> FALSE, message |-> None]

ErrorElems ==
    {NoErrorElem,
     [present |-> TRUE, message |-> None],
     [present |-> TRUE, message |-> "quota exceeded"]}

\* What a status fetch may return.
TaskResponses ==
    {[status |-> st, error_elem |-> el] :
        st \in Statuses, el \in ErrorElems} \ 
    {r \in [status : Statuses, error_elem : ErrorElems] :
        r.status # "error" /\ r.error_elem # NoErrorElem}

\* Variant: a missing status ends the loop like success.
LoopContinues_WhileStatus(status) == status # "success" /\ status # None

\* while status != "success"
LoopContinues(status) == status # "success"

\* Variant: the operands of the subtraction are swapped.
TimedOut_Swapped(t, start_time, timeout) == start_time - t >= timeout

\* time.time() - start_time >= timeout
TimedOut(t, start_time, timeout) == t - start_time >= timeout

\* The reason reported for an error status.
ErrorMessage(error_elem) ==
    IF error_elem.present THEN error_elem.message ELSE "Unknown error"

\* The exception each branch of the loop raises.
TaskException(failure, error_elem) ==
    IF failure = "error"
    THEN [kind |-> "Exception", text |-> "Error status returned by task",
          error_msg |-> ErrorMessage(error_elem)]
    ELSE IF failure = "canceled"
    THEN [kind |-> "Exception", text |-> "Canceled status returned by task",
          error_msg |-> None]
    ELSE [kind |-> "Exception", text |-> "Timeout while waiting for task",
          error_msg |-> None]

\* _wait_for_task_completion(task_href, timeout): start_time = time.time()
WaitCall ==
    /\ wait.pc \in {"idle", "returned", "raised"}
    /\ \E timeout \in Timeouts :
          /\ clock + timeout + SLEEP_SECONDS <= MaxClock
          /\ wait' = [NoWait EXCEPT !.pc = "fetch", !.start_time = clock,
                                    !.timeout = timeout]
    /\ UNCHANGED <<clock, raised, osVars, drvVars, vcVars>>

\* res = self.connection.request(...); status = res.object.get("status"):
\* the request returns a task, or raises.
WaitFetch ==
    /\ wait.pc = "fetch"
    /\ \/ \E r \in TaskResponses :
            wait' = [wait EXCEPT !.pc = "loop", !.status = r.status,
                                 !.error_elem = r.error_elem,
                                 !.polls = @ + 1,
                                 !.seen = @ \cup {r.status},
                                 !.observed = Append(@, r.status)]
       \/ wait' = [wait EXCEPT !.pc = "raised", !.polls = @ + 1,
                               !.outcome = "request failed",
                               !.exc = [kind |-> "BaseHTTPError",
                                        text |-> "request failed",
                                        error_msg |-> None]]
    /\ UNCHANGED <<clock, raised, osVars, drvVars, vcVars>>

\* Variant: a canceled task is waited for like a running one.
FailureOf_IgnoresCanceled(w, t) ==
    IF w.status = "error" THEN "error"
    ELSE IF TimedOut(t, w.start_time, w.timeout) THEN "timeout"
    ELSE "none"

\* Variant: a response without a status is taken for a failed task.
FailureOf_MissingIsError(w, t) ==
    IF w.status = "error" \/ w.status = None THEN "error"
    ELSE IF w.status = "canceled" THEN "canceled"
    ELSE IF TimedOut(t, w.start_time, w.timeout) THEN "timeout"
    ELSE "none"

\* Variant: the deadline is tested before the status.
FailureOf_DeadlineFirst(w, t) ==
    IF TimedOut(t, w.start_time, w.timeout) THEN "timeout"
    ELSE IF w.status = "error" THEN "error"
    ELSE IF w.status = "canceled" THEN "canceled"
    ELSE "none"

\* The way this pass of the loop fails, "none" when it does not.
FailureOf(w, t) ==
    IF w.status = "error" THEN "error"
    ELSE IF w.status = "canceled" THEN "canceled"
    ELSE IF TimedOut(t, w.start_time, w.timeout) THEN "timeout"
    ELSE "none"

\* The loop test and the body down to the sleep.
WaitLoop ==
    /\ wait.pc = "loop"
    /\ IF ~LoopContinues(wait.status)
       THEN /\ wait' = [wait EXCEPT !.pc = "returned", !.outcome = "success"]
            /\ UNCHANGED raised
       ELSE LET failure == FailureOf(wait, clock) IN
            IF failure = "none"
            THEN /\ wait' = [wait EXCEPT !.pc = "sleep"]
                 /\ UNCHANGED raised
            ELSE LET exc == TaskException(failure, wait.error_elem) IN
                 /\ wait' = [wait EXCEPT !.pc = "raised", !.outcome = failure,
                                         !.exc = exc]
                 /\ raised' = [raised EXCEPT ![failure] = @ \cup {exc.kind}]
    /\ UNCHANGED <<clock, osVars, drvVars, vcVars>>

\* time.sleep(5)
WaitSleep ==
    /\ wait.pc = "sleep"
    /\ clock + SLEEP_SECONDS <= MaxClock
    /\ clock' = clock + SLEEP_SECONDS
    /\ wait' = [wait EXCEPT !.pc = "fetch"]
    /\ UNCHANGED <<raised, osVars, drvVars, vcVars>>

\* A second passes while the status request is in flight (seconds past the
\* deadline are not told apart).
WaitTick ==
    /\ wait.pc = "fetch"
    /\ clock < MaxClock
    /\ ~TimedOut(clock, wait.start_time, wait.timeout)
    /\ clock' = clock + 1
    /\ UNCHANGED <<wait, raised, osVars, drvVars, vcVars>>

InitWait == Init /\ served = CatalogA

NextWait == WaitCall \/ WaitFetch \/ WaitLoop \/ WaitSleep \/ WaitTick

SpecWait == InitWait /\ [][NextWait]_vars

\* The waiter runs on a thread of its own: a fetch that can return returns,
\* the loop body and the sleep take their step.  Nothing makes a caller call.
SpecWaitFair ==
    /\ SpecWait
    /\ WF_vars(WaitFetch)
    /\ WF_vars(WaitLoop)
    /\ WF_vars(WaitSleep)

----------------------------------------------------------------------------
(* The vCloud 1.5 node driver: operations that submit a task and wait      *)

DEFAULT_TASK_COMPLETION_TIMEOUT == 600

\* time.sleep(10) between two attempts to deploy
RETRY_SLEEP_SECONDS == 10

\* How a call of _wait_for_task_completion ends when the last response it
\* fetched is r and `elapsed` seconds have passed: "none" when such a pass
\* does not end it.
WaitOutcome(r, elapsed) ==
    IF ~LoopContinues(r.status) THEN "success"
    ELSE FailureOf([status |-> r.status, start_time |-> 0,
                    timeout |-> DEFAULT_TASK_COMPLETION_TIMEOUT], elapsed)

\* The ways res = self.connection.request(...) followed by
\* self._wait_for_task_completion(res.object.get("href")) ends: the request
\* raises, a status fetch raises, or the wait ends.
AttemptOutcomes ==
    {"submit failed", "request failed"}
    \cup ({WaitOutcome(r, e) : r \in TaskResponses,
                               e \in {0, DEFAULT_TASK_COMPLETION_TIMEOUT}}
          \ {"none"})

\* One more entry of the history of the operations requested of the
\* server: at least the request that submits it was sent.
Submitted(d, operation, action, outcome) ==
    [d EXCEPT !.log = Append(@, [operation |-> operation, action |-> action,
                                 outcome |-> outcome]),
              !.requested = TRUE]

\* A name is modelled by its characters, each standing for its class: a
\* letter, a digit, the hyphen, any other character.
NameChars == {"a", "1", "-", "_"}

\* HOSTNAME_RE = ^(?!-)[A-Z\d-]{1,63}(?<!-)$ with re.IGNORECASE
HOSTNAME_RE(name) ==
    /\ Len(name) \in 1..63
    /\ \A i \in DOMAIN name : name[i] \in {"a", "1", "-"}
    /\ name[1] # "-"
    /\ name[Len(name)] # "-"

VIRTUAL_MEMORY_VALS == {512} \cup {1024 * i : i \in 1..8}

VIRTUAL_CPU_VALS_1_5 == 1..8

FENCE_MODE_VALS_1_5 == {"bridged", "isolated", "natRouted"}

IP_MODE_VALS_1_5 == {"POOL", "DHCP", "MANUAL", "NONE"}

\* The files os.path.isfile finds.
ScriptFiles == {"/opt/customize.sh"}

\* Variant: a name of any length passes.
NameTooLong_Never(name) == FALSE

\* if len(name) > 15:
NameTooLong(name) == Len(name) > 15

\* _validate_vm_names
validate_vm_names(names) ==
    IF ~names.given THEN "none"
    ELSE IF \E i \in DOMAIN names.value :
               NameTooLong(names.value[i]) \/ ~HOSTNAME_RE(names.value[i])
    THEN "ValueError"
    ELSE "none"

\* _validate_vm_cpu
validate_vm_cpu(vm_cpu) ==
    IF ~vm_cpu.given THEN "none"
    ELSE IF vm_cpu.value \notin VIRTUAL_CPU_VALS_1_5 THEN "ValueError"
    ELSE "none"

\* _validate_vm_memory
validate_vm_memory(vm_memory) ==
    IF ~vm_memory.given THEN "none"
    ELSE IF vm_memory.value \notin VIRTUAL_MEMORY_VALS THEN "ValueError"
    ELSE "none"

\* _validate_vm_fence
validate_vm_fence(vm_fence) ==
    IF ~vm_fence.given THEN "none"
    ELSE IF vm_fence.value \notin FENCE_MODE_VALS_1_5 THEN "ValueError"
    ELSE "none"

\* _validate_vm_ipmode
validate_vm_ipmode(vm_ipmode) ==
    IF ~vm_ipmode.given THEN "none"
    ELSE IF vm_ipmode.value = "MANUAL" THEN "NotImplementedError"
    ELSE IF vm_ipmode.value \notin IP_MODE_VALS_1_5 THEN "ValueError"
    ELSE "none"

\* _validate_vm_script
validate_vm_script(vm_script) ==
    IF ~vm_script.given THEN "none"
    ELSE IF vm_script.value \notin ScriptFiles THEN "LibcloudError"
    ELSE "none"

\* The first of the six validations of create_node that raises, in the
\* order of the calls; "none" when all pass.
ValidationError(kw) ==
    LET checks == <<validate_vm_names(kw.ex_vm_names),
                    validate_vm_cpu(kw.ex_vm_cpu),
                    validate_vm_memory(kw.ex_vm_memory),
                    validate_vm_fence(kw.ex_vm_fence),
                    validate_vm_ipmode(kw.ex_vm_ipmode),
                    validate_vm_script(kw.ex_vm_script)>>
        failed == {i \in DOMAIN checks : checks[i] # "none"}
    IN  IF failed = {} THEN "none"
        ELSE checks[CHOOSE i \in failed : \A j \in failed : i <= j]

\* Names: a valid one, one of 16 characters, one with a character outside
\* the pattern, one that begins with a hyphen.
ValidName == <<"a", "a", "-", "1">>

LongName == [i \in 1..16 |-> "a"]

\* The values a VM parameter is passed with: valid ones and invalid ones.
VmNames ==
    {<<ValidName>>, <<ValidName, LongName>>, <<<<"a", "_", "1">>>>,
     <<<<"-", "a">>>>}

VmCpus == {2, 9}

VmMemories == {1024, 1000}

VmFences == {"bridged", "routed"}

VmIpModes == {"DHCP", "MANUAL", "STATIC"}

VmScripts == {"/opt/customize.sh", "/opt/missing.sh"}

\* The calls that pass one VM parameter.
SingleCalls ==
    {[NoVmParams EXCEPT !.ex_vm_names = Given(v)] : v \in VmNames}
    \cup {[NoVmParams EXCEPT !.ex_vm_cpu = Given(v)] : v \in VmCpus}
    \cup {[NoVmParams EXCEPT !.ex_vm_memory = Given(v)] : v \in VmMemories}
    \cup {[NoVmParams EXCEPT !.ex_vm_fence = Given(v)] : v \in VmFences}
    \cup {[NoVmParams EXCEPT !.ex_vm_ipmode = Given(v)] : v \in VmIpModes}
    \cup {[NoVmParams EXCEPT !.ex_vm_script = Given(v)] : v \in VmScripts}

\* A call with every parameter valid, and one with every parameter invalid.
FullCalls ==
    {[ex_vm_names |-> Given(<<ValidName>>), ex_vm_cpu |-> Given(2),
      ex_vm_memory |-> Given(1024), ex_vm_fence |-> Given("bridged"),
      ex_vm_ipmode |-> Given("DHCP"),
      ex_vm_script |-> Given("/opt/customize.sh")],
     [ex_vm_names |-> Given(<<ValidName, LongName>>), ex_vm_cpu |-> Given(9),
      ex_vm_memory |-> Given(1000), ex_vm_fence |-> Given("routed"),
      ex_vm_ipmode |-> Given("MANUAL"),
      ex_vm_script |-> Given("/opt/missing.sh")]}

\* The VM parameters create_node is called with: none, one, or all.
VmParams == {NoVmParams} \cup SingleCalls \cup FullCalls

\* A VM parameter was passed, so that its _change_vm_* sends requests.
ChangesVm(kw) ==
    \/ kw.ex_vm_names.given \/ kw.ex_vm_cpu.given \/ kw.ex_vm_memory.given
    \/ kw.ex_vm_script.given \/ kw.ex_vm_ipmode.given

\* create_node(**kwargs): the arguments are read; nothing is sent.
CreateNodeCall ==
    /\ drv.pc \in {"idle", "returned", "raised"}
    /\ \E ex_deploy \in BOOLEAN, kw \in VmParams :
          drv' = [NoDriverCall EXCEPT !.op = "create_node",
                                      !.pc = "validate",
                                      !.ex_deploy = ex_deploy,
                                      !.kwargs = kw]
    /\ UNCHANGED <<osVars, waitVars, vcVars>>

\* self._validate_vm_names(ex_vm_names) ... self._validate_vm_script(...):
\* the first that raises ends the call.
CreateNodeValidate ==
    /\ drv.pc = "validate"
    /\ drv' = IF ValidationError(drv.kwargs) # "none"
              THEN [drv EXCEPT !.pc = "raised",
                               !.exc = ValidationError(drv.kwargs)]
              ELSE [drv EXCEPT !.pc = "prepare"]
    /\ UNCHANGED <<osVars, waitVars, vcVars>>

\* `if ex_network:` the network is requested; vdc = self._get_vdc(ex_vdc)
\* requests the organisation's vDCs unless they are cached.
CreateNodePrepare ==
    /\ drv.pc = "prepare"
    /\ \E requests \in BOOLEAN, answered \in BOOLEAN :
          drv' = IF ~requests THEN [drv EXCEPT !.pc = "instantiate"]
                 ELSE IF answered
                 THEN [drv EXCEPT !.pc = "instantiate", !.requested = TRUE]
                 ELSE [drv EXCEPT !.pc = "raised", !.requested = TRUE,
                                  !.exc = "request failed"]
    /\ UNCHANGED <<osVars, waitVars, vcVars>>

\* self._instantiate_node(...) or self._clone_node(...): submit, wait.
CreateNodeInstantiate ==
    /\ drv.pc = "instantiate"
    /\ \E outcome \in AttemptOutcomes :
          LET d == Submitted(drv, "instantiate", None, outcome) IN
          drv' = IF outcome # "success"
                 THEN [d EXCEPT !.pc = "raised", !.exc = outcome]
                 ELSE [d EXCEPT !.pc = "change"]
    /\ UNCHANGED <<osVars, waitVars, vcVars>>

\* self._change_vm_names(...) ... self._change_vm_ipmode(...), each a no-op
\* for a parameter that is None; then `if ex_deploy:` the node is fetched
\* and retry = 3.
CreateNodeChange ==
    /\ drv.pc = "change"
    /\ \E changed \in BOOLEAN, fetched \in BOOLEAN :
          drv' = IF ChangesVm(drv.kwargs) /\ ~changed
                 THEN [drv EXCEPT !.pc = "raised", !.exc = "change failed"]
                 ELSE IF ~drv.ex_deploy
                 THEN [drv EXCEPT !.pc = "fetch"]
                 ELSE IF ~fetched
                 THEN [drv EXCEPT !.pc = "raised", !.exc = "fetch failed"]
                 ELSE [drv EXCEPT !.pc = "deploy", !.retry = 3]
    /\ UNCHANGED <<osVars, waitVars, vcVars>>

\* The ways ex_deploy_node(node) ends: as the attempt, or by the failure of
\* the request that fetches the node after the wait returned.
DeployOutcomes == AttemptOutcomes \cup {"fetch failed"}

\* Variant: the test lets one more retry through.
GivesUp_OffByOne(retry) == retry < 0

\* Variant: the last retry is not made.
GivesUp_AtOne(retry) == retry <= 1

\* if retry <= 0: raise
GivesUp(retry) == retry <= 0

\* One pass of `while True:`: ex_deploy_node, break on success; on an
\* exception raise it when no retry is left, else retry -= 1 and sleep.
CreateNodeDeploy ==
    /\ drv.pc = "deploy"
    /\ \E outcome \in DeployOutcomes :
          LET d == Submitted(drv, "deploy", None, outcome) IN
          drv' = IF outcome = "success"
                 THEN [d EXCEPT !.pc = "fetch"]
                 ELSE IF GivesUp(drv.retry)
                 THEN [d EXCEPT !.pc = "raised", !.exc = outcome]
                 ELSE [d EXCEPT !.retry = @ - 1,
                                !.slept = @ + RETRY_SLEEP_SECONDS]
    /\ UNCHANGED <<osVars, waitVars, vcVars>>

\* res = self.connection.request(get_url_path(vapp_href)); return node
CreateNodeReturn ==
    /\ drv.op = "create_node"
    /\ drv.pc = "fetch"
    /\ \E fetched \in BOOLEAN :
          drv' = IF fetched
                 THEN [drv EXCEPT !.pc = "returned", !.requested = TRUE]
                 ELSE [drv EXCEPT !.pc = "raised", !.requested = TRUE,
                                  !.exc = "fetch failed"]
    /\ UNCHANGED <<osVars, waitVars, vcVars>>

\* Variant: a failed shutdown is not followed by a power-off.
Fallback_Never(action) == None

\* try: undeploy("shutdown") / except Exception: undeploy("powerOff"); the
\* undeploy("powerOff") calls are in no try.
Fallback(action) == IF action = "shutdown" THEN "powerOff" ELSE None

\* ex_undeploy_node(node, shutdown)
UndeployCall ==
    /\ drv.pc \in {"idle", "returned", "raised"}
    /\ \E shutdown \in BOOLEAN :
          drv' = [NoDriverCall EXCEPT
                     !.op = "ex_undeploy_node", !.pc = "undeploy",
                     !.shutdown = shutdown,
                     !.action = IF shutdown THEN "shutdown" ELSE "powerOff"]
    /\ UNCHANGED <<osVars, waitVars, vcVars>>

\* undeploy(action): submit, wait.  Inside `try:` an exception leads to
\* undeploy("powerOff"); elsewhere it propagates.
UndeployAttempt ==
    /\ drv.pc = "undeploy"
    /\ \E outcome \in AttemptOutcomes :
          LET d == Submitted(drv, "undeploy", drv.action, outcome) IN
          drv' = IF outcome = "success"
                 THEN [d EXCEPT !.pc = "fetch"]
                 ELSE IF Fallback(drv.action) # None
                 THEN [d EXCEPT !.action = Fallback(drv.action)]
                 ELSE [d EXCEPT !.pc = "raised", !.exc = outcome]
    /\ UNCHANGED <<osVars, waitVars, vcVars>>

\* res = self.connection.request(get_url_path(node.id)); return node
UndeployReturn ==
    /\ drv.op = "ex_undeploy_node"
    /\ drv.pc = "fetch"
    /\ \E fetched \in BOOLEAN :
          drv' = IF fetched
                 THEN [drv EXCEPT !.pc = "returned", !.requested = TRUE]
                 ELSE [drv EXCEPT !.pc = "raised", !.requested = TRUE,
                                  !.exc = "fetch failed"]
    /\ UNCHANGED <<osVars, waitVars, vcVars>>

\* httplib.ACCEPTED
ACCEPTED == 202

\* The statuses of an answered DELETE.
DeleteStatuses == {200, ACCEPTED, 204}

\* The ways the undeploy of destroy_node fails: as any attempt, or by the
\* malformed XML of the response.
DestroyUndeployOutcomes == AttemptOutcomes \cup {"ExpatError"}

\* Variant: only the malformed response is passed over.
DestroyIgnores_OnlyExpat(outcome) == outcome \in {"success", "ExpatError"}

\* except Exception: pass (and except ExpatError: pass)
DestroyIgnores(outcome) == outcome \in DestroyUndeployOutcomes

\* VCloudNodeDriver.destroy_node(node)
DestroyCall ==
    /\ drv.pc \in {"idle", "returned", "raised"}
    /\ drv' = [NoDriverCall EXCEPT !.op = "destroy_node", !.pc = "poweroff"]
    /\ UNCHANGED <<osVars, waitVars, vcVars>>

\* try: POST power/action/poweroff, wait / except Exception: pass
DestroyPowerOff ==
    /\ drv.pc = "poweroff"
    /\ \E outcome \in AttemptOutcomes :
          LET d == Submitted(drv, "poweroff", None, outcome) IN
          drv' = IF DestroyIgnores(outcome)
                 THEN [d EXCEPT !.pc = "destroy undeploy"]
                 ELSE [d EXCEPT !.pc = "raised", !.exc = outcome]
    /\ UNCHANGED <<osVars, waitVars, vcVars>>

\* try: POST action/undeploy, wait / except ExpatError: pass /
\* except Exception: pass
DestroyUndeploy ==
    /\ drv.pc = "destroy undeploy"
    /\ \E outcome \in DestroyUndeployOutcomes :
          LET d == Submitted(drv, "undeploy", None, outcome) IN
          drv' = IF DestroyIgnores(outcome)
                 THEN [d EXCEPT !.pc = "delete"]
                 ELSE [d EXCEPT !.pc = "raised", !.exc = outcome]
    /\ UNCHANGED <<osVars, waitVars, vcVars>>

\* res = self.connection.request(node_path, method="DELETE");
\* return res.status == httplib.ACCEPTED
DestroyDelete ==
    /\ drv.pc = "delete"
    /\ \/ \E status \in DeleteStatuses :
             drv' = [Submitted(drv, "DELETE", None, "success") EXCEPT
                        !.pc = "returned", !.status = status,
                        !.result = (status = ACCEPTED)]
       \/ drv' = [Submitted(drv, "DELETE", None, "request failed") EXCEPT
                     !.pc = "raised", !.exc = "request failed"]
    /\ UNCHANGED <<osVars, waitVars, vcVars>>

InitDriver == Init /\ served = CatalogA

NextDriver ==
    \/ CreateNodeCall \/ CreateNodeValidate \/ CreateNodePrepare
    \/ CreateNodeInstantiate \/ CreateNodeChange \/ CreateNodeDeploy
    \/ CreateNodeReturn
    \/ UndeployCall \/ UndeployAttempt \/ UndeployReturn
    \/ DestroyCall \/ DestroyPowerOff \/ DestroyUndeploy \/ DestroyDelete

SpecDriver == InitDriver /\ [][NextDriver]_vars

----------------------------------------------------------------------------
(* The vCloud connection: the login that precedes every request            *)

\* Logins one connection may attempt.
MaxLogin == 3

ApiVersions == {"0.8", "1.5"}

\* The values of the session header: set-cookie (0.8),
\* x-vcloud-authorization (1.5).
SessionTokens == {"vcloud-token-1", "vcloud-token-2"}

\* get_url_path(...get("href")) of the organisation
OrgPath == "/api/org/1"

\* No response: self.connection.request(...) raised.
NoReply == [answered |-> FALSE, header |-> None, parses |-> FALSE,
            link |-> FALSE]

\* The responses to the login request: whether it carries the session
\* header, whether ET.XML(resp.text) parses, whether the body holds the
\* element looked for (0.8: Org; 1.5: the Link of type orgList+xml).
LoginResponses ==
    {r \in [answered : BOOLEAN, header : SessionTokens \cup {None},
            parses : BOOLEAN, link : BOOLEAN] :
        /\ ~r.answered => r = NoReply
        /\ ~r.parses => ~r.link}

\* The responses to GET org_list_url (1.5): whether the body parses and
\* whether it holds an Org whose name is self.org_name.
OrgListResponses ==
    {r \in [answered : BOOLEAN, parses : BOOLEAN, org : BOOLEAN] :
        /\ ~r.answered => ~r.parses
        /\ ~r.parses => ~r.org}

\* Variant: every request logs in first.
NeedsLogin_Always(token) == TRUE

\* if not self.token:
NeedsLogin(token) == token = None

\* self.connection.request(method="POST", url=...) of the login and
\* resp = self.connection.getresponse()
LoginRequest(v, url, r) ==
    [v EXCEPT !.sent = Append(@, url), !.logins = @ + 1, !.total = @ + 1,
              !.reply = r]

\* VCloudConnection._get_auth_token: the body is parsed, then the token is
\* taken from set-cookie, then the organisation from the body's Org.
get_auth_token_0_8(v, r) ==
    IF ~NeedsLogin(v.token) THEN v
    ELSE LET v1 == LoginRequest(v, "/api/v0.8/login", r) IN
         IF ~r.answered THEN [v1 EXCEPT !.exc = "request failed"]
         ELSE IF ~r.parses THEN [v1 EXCEPT !.exc = "ParseError"]
         ELSE IF r.header = None THEN [v1 EXCEPT !.exc = "InvalidCredsError"]
         ELSE LET v2 == [v1 EXCEPT !.token = r.header] IN
              IF ~r.link THEN [v2 EXCEPT !.exc = "AttributeError"]
              ELSE [v2 EXCEPT !.org = OrgPath]

\* VCloud_1_5_Connection._get_auth_token: the token is taken from
\* x-vcloud-authorization, then the body is parsed for the organisation's
\* name and the orgList link, then the list is fetched and searched.
get_auth_token_1_5(v, r, r2) ==
    IF ~NeedsLogin(v.token) THEN v
    ELSE LET v1 == LoginRequest(v, "/api/sessions", r) IN
         IF ~r.answered THEN [v1 EXCEPT !.exc = "request failed"]
         ELSE IF r.header = None THEN [v1 EXCEPT !.exc = "InvalidCredsError"]
         ELSE LET v2 == [v1 EXCEPT !.token = r.header] IN
              IF ~r.parses THEN [v2 EXCEPT !.exc = "ParseError"]
              ELSE IF ~r.link THEN [v2 EXCEPT !.exc = "StopIteration"]
              ELSE LET v3 == [v2 EXCEPT !.sent = Append(@, "org_list_url")]
                   IN
                   IF ~r2.answered THEN [v3 EXCEPT !.exc = "request failed"]
                   ELSE IF ~r2.parses THEN [v3 EXCEPT !.exc = "ParseError"]
                   ELSE IF ~r2.org THEN [v3 EXCEPT !.exc = "StopIteration"]
                   ELSE [v3 EXCEPT !.org = OrgPath]

\* self._get_auth_token() of the connection class of the driver's version
get_auth_token(v, r, r2) ==
    IF v.api_version = "0.8" THEN get_auth_token_0_8(v, r)
    ELSE get_auth_token_1_5(v, r, r2)

\* A call begins: what the last call did is forgotten.
VCloudCall(v, op) ==
    [v EXCEPT !.op = op, !.exc = "none", !.logins = 0, !.sent = << >>,
              !.pre_token = v.token, !.reply = NoReply]

\* A call that would log in is made only while logins are left.
LoginAllowed == NeedsLogin(vc.token) => vc.total < MaxLogin

\* VCloudNodeDriver(...) or VCloud_1_5_NodeDriver(...): nothing is sent.
VCloudConstruct ==
    /\ vc.api_version = None
    /\ \E api \in ApiVersions : vc' = [NoVCloud EXCEPT !.api_version = api]
    /\ UNCHANGED <<osVars, waitVars, drvVars>>

\* VCloudConnection.request: self._get_auth_token(), then
\* super().request(*args, **kwargs).
VCloudRequest ==
    /\ vc.api_version # None
    /\ LoginAllowed
    /\ \E r \in LoginResponses, r2 \in OrgListResponses,
          answered \in BOOLEAN :
          LET v == get_auth_token(VCloudCall(vc, "request"), r, r2) IN
          vc' = IF v.exc # "none" THEN v
                ELSE IF answered
                THEN [v EXCEPT !.sent = Append(@, "request")]
                ELSE [v EXCEPT !.sent = Append(@, "request"),
                               !.exc = "request failed"]
    /\ UNCHANGED <<osVars, waitVars, drvVars>>

\* VCloudConnection.check_org: self._get_auth_token()
VCloudCheckOrg ==
    /\ vc.api_version # None
    /\ LoginAllowed
    /\ \E r \in LoginResponses, r2 \in OrgListResponses :
          vc' = get_auth_token(VCloudCall(vc, "check_org"), r, r2)
    /\ UNCHANGED <<osVars, waitVars, drvVars>>

InitVCloud == Init /\ served = CatalogA

NextVCloud == VCloudConstruct \/ VCloudRequest \/ VCloudCheckOrg

SpecVCloud == InitVCloud /\ [][NextVCloud]_vars

----------------------------------------------------------------------------
(* Properties                                                              *)

\* The operations that go through _populate_hosts_and_request_paths.
Calls == {"request", "populate"}

HandshakesOf(c) == Count(last[c].events, "handshake")

SendsOf(c) == Count(last[c].events, "send")

ClearsOf(c) == Count(last[c].events, "clear")

\* The cache holds no context under the client's key.
NoCachedEntry(c) == CacheKey(cfg[c]) \notin DOMAIN cache

\* A request of a client without a forced token was answered 401.
Unauthorized401(c) ==
    /\ last[c].op = "request"
    /\ last[c].code = UNAUTHORIZED
    /\ cfg[c].ex_force_auth_token = None

\* C1: when a request of a client without a forced token fails with HTTP
\* 401, the cached context of the client's key is cleared exactly once,
\* after the single exchange and before the error is raised; the HTTP error
\* is what the caller gets; the request is sent once.
C1_EvictOnceOn401 ==
    \A c \in Clients :
        Unauthorized401(c) =>
            /\ ClearsOf(c) = 1
            /\ SendsOf(c) = 1
            /\ last[c].events[Len(last[c].events)] = "clear"
            /\ last[c].exc = "BaseHTTPError"
            /\ osa[c] = NoContext
            /\ NoCachedEntry(c)

\* C1 witness: a 401 evicted a context that the external cache held.
C1_Witness ==
    /\ Unauthorized401("c1")
    /\ cfg["c1"].ex_auth_cache
    /\ last["c1"].evicted # None

\* A request of a client with a forced literal token was answered 401.
Unauthorized401Forced(c) ==
    /\ last[c].op = "request"
    /\ last[c].code = UNAUTHORIZED
    /\ Truthy(cfg[c].ex_force_auth_token)

\* C2: a 401 on a request of a client with a forced literal token issues no
\* clear and leaves the identity connection and the cache as they were (no
\* context), and the HTTP error still reaches the caller.
C2_ForcedTokenNeverEvicts ==
    \A c \in Clients :
        Unauthorized401Forced(c) =>
            /\ ClearsOf(c) = 0
            /\ last[c].evicted = None
            /\ last[c].exc = "BaseHTTPError"
            /\ last[c].sent = cfg[c].ex_force_auth_token
            /\ osa[c] = NoContext
            /\ cache = << >>

\* C2 witness: a second consecutive 401 of a forced-token client.
C2_Witness ==
    /\ Unauthorized401Forced("c1")
    /\ last["c1"].prev_op = "request"
    /\ cfg["c1"].ex_auth_cache

\* When the last operation began the identity connection held a token, and
\* the token had no expiry E or now + clock_skew < E held.
HeldValidToken(c) == last[c].pre_tok # None /\ last[c].pre_fresh

\* When the last operation began the identity connection held a token with
\* an expiry E, and now + clock_skew >= E held.
HeldExpiredToken(c) == last[c].pre_tok # None /\ ~last[c].pre_fresh

\* A client that authenticates to obtain its token.
Authenticates(c) ==
    /\ phase[c] = "ready"
    /\ ~Truthy(cfg[c].ex_force_auth_token)
    /\ auth_version[c] \in SupportedAuthVersions

\* C3: for a client without a forced token, construction performs no
\* handshake, the first call performs exactly one, and a call made while
\* the identity connection's token is valid performs none.
C3_LazyAndReused ==
    \A c \in Clients :
        /\ last[c].op = "init" => (issued = 0 /\ osa[c] = NoContext)
        /\ Authenticates(c) /\ last[c].op \in Calls =>
            /\ last[c].prev_op = "init" => HandshakesOf(c) = 1
            /\ HeldValidToken(c) => HandshakesOf(c) = 0

\* C3 witness: a call found the token valid, after time has passed.
C3_Witness ==
    /\ Authenticates("c1")
    /\ last["c1"].op = "request"
    /\ last["c1"].prev_op = "request"
    /\ HeldValidToken("c1")
    /\ now > 0

\* What _tuple_from_url makes of the forced base URL.
UsesForcedBaseUrl(c) ==
    LET u == cfg[c].ex_force_base_url IN
    /\ conn[c].host = u.host
    /\ conn[c].secure = (u.scheme = "https")
    /\ conn[c].port = (IF u.port # 0 THEN u.port
                       ELSE IF u.scheme = "https" THEN 443 ELSE 80)
    /\ conn[c].request_path = u.path

\* C4: a client constructed with a forced token and a forced base URL never
\* performs a handshake, and each of its calls completes, sends the forced
\* token and uses host, port, scheme and path of the forced base URL.
C4_ForcedTokenSkipsAuth ==
    \A c \in Clients :
        (phase[c] = "ready" /\ Truthy(cfg[c].ex_force_auth_token)) =>
            /\ UrlTruthy(cfg[c].ex_force_base_url)
            /\ issued = 0
            /\ HandshakesOf(c) = 0
            /\ conn[c].auth_token = cfg[c].ex_force_auth_token
            /\ last[c].op \in Calls => UsesForcedBaseUrl(c)
            /\ last[c].op = "request" =>
                  (SendsOf(c) = 1 /\ last[c].sent = cfg[c].ex_force_auth_token)

\* C4 witness: the third consecutive request of a forced-token client.
C4_Witness ==
    /\ Truthy(cfg["c1"].ex_force_auth_token)
    /\ last["c1"].op = "request"
    /\ last["c1"].prev_op = "request"
    /\ last["c1"].code = 200
    /\ now = MaxTime

\* C5: the call that follows a 401 eviction performs exactly one handshake,
\* before its exchange, and what it sends is the token that handshake
\* returned, not the evicted one.
C5_ReauthAfterEviction ==
    \A c \in Clients :
        (last[c].op = "request" /\ last[c].prev_evicted # None) =>
            /\ HandshakesOf(c) = 1
            /\ last[c].events[1] = "handshake"
            /\ SendsOf(c) = 1 =>
                  /\ last[c].newtok # None
                  /\ last[c].sent = last[c].newtok
                  /\ last[c].sent # last[c].prev_evicted

\* C5 witness: the request after an eviction was sent.
C5_Witness ==
    /\ last["c1"].op = "request"
    /\ last["c1"].prev_evicted # None
    /\ SendsOf("c1") = 1
    /\ cfg["c1"].ex_auth_cache

\* The operations that may authenticate without being forced to.
UnforcedOps(c) ==
    /\ Authenticates(c)
    /\ last[c].op \in Calls \cup {"authenticate"}
    /\ ~last[c].force

\* C6: with a token T1 of expiry E held by the identity connection, an
\* authenticate() or call made while now + clock_skew < E performs no
\* handshake and keeps T1; one made once now + clock_skew >= E performs
\* exactly one handshake, and the token that handshake returns replaces T1.
\* (A call that is answered 401 evicts the token it used, afterwards.)
C6_ReuseUntilExpiry ==
    \A c \in Clients :
        UnforcedOps(c) =>
            /\ HeldValidToken(c) =>
                  /\ HandshakesOf(c) = 0
                  /\ last[c].newtok = None
                  /\ ClearsOf(c) = 0 => osa[c].auth_token = last[c].pre_tok
            /\ HeldExpiredToken(c) =>
                  /\ HandshakesOf(c) = 1
                  /\ last[c].exc \in {"InvalidCredsError",
                                      "MalformedResponseError"}
                        => osa[c].auth_token = last[c].pre_tok
                  /\ last[c].newtok # None =>
                        /\ last[c].newtok # last[c].pre_tok
                        /\ ClearsOf(c) = 0 => osa[c].auth_token = last[c].newtok

\* C6 witness: authenticate() found the token expired and replaced it, after
\* an authenticate() that had reused it.
C6_Witness ==
    /\ UnforcedOps("c1")
    /\ last["c1"].op = "authenticate"
    /\ last["c1"].prev_op = "authenticate"
    /\ HeldExpiredToken("c1")
    /\ last["c1"].newtok # None
    /\ now = MaxTime

\* The step is a successful authenticate() of client c.
AuthenticateSucceeded(c) ==
    /\ now' = now
    /\ last'[c].op = "authenticate"
    /\ last'[c].exc = "none"

AuthenticationFailed(c) ==
    /\ now' = now
    /\ last'[c].op \in Calls \cup {"authenticate"}
    /\ last'[c].exc \in {"InvalidCredsError", "MalformedResponseError"}

\* C8: a failed authentication attempt leaves the cache, the identity
\* connection's context and the connection's token, expiry, user info and
\* catalog as they were; a context appears under the client's key only in
\* an operation whose handshake succeeded, and it is that handshake's.
C8_FailedAuthChangesNothing ==
    [][\A c \in Clients :
          /\ AuthenticationFailed(c) =>
                /\ cache' = cache
                /\ osa'[c] = osa[c]
                /\ conn'[c].auth_token = conn[c].auth_token
                /\ conn'[c].auth_token_expires = conn[c].auth_token_expires
                /\ conn'[c].auth_user_info = conn[c].auth_user_info
                /\ conn'[c].service_catalog = conn[c].service_catalog
          /\ (/\ phase[c] = "ready"
              /\ CacheKey(cfg[c]) \in DOMAIN cache'
              /\ cache_get(cache', CacheKey(cfg[c]))
                    # cache_get(cache, CacheKey(cfg[c])))
             => /\ last'[c].newtok # None
                /\ cache'[CacheKey(cfg[c])].auth_token = last'[c].newtok]_vars

\* C8 witness: the handshake of a request was rejected while the cache and
\* the connection held an expired context.
C8_Witness ==
    /\ last["c1"].op = "request"
    /\ last["c1"].exc = "InvalidCredsError"
    /\ HeldExpiredToken("c1")
    /\ conn["c1"].auth_token = last["c1"].pre_tok
    /\ ~NoCachedEntry("c1")

\* C9: wait returns normally only when the status it last observed is
\* success: not on a non-terminal or missing status, not after it observed
\* error or canceled, and not together with a raised exception.
C9_ReturnsOnlyOnSuccess ==
    wait.pc = "returned" =>
        /\ wait.status = "success"
        /\ wait.polls >= 1
        /\ wait.seen \cap {"error", "canceled"} = {}
        /\ wait.outcome = "success"
        /\ wait.exc.kind = "none"

\* C9 witness: wait returned after having observed non-terminal statuses.
C9_Witness ==
    /\ wait.pc = "returned"
    /\ wait.polls >= 3
    /\ {"running", None} \subseteq wait.seen

\* C10 as stated: the error, canceled and timeout outcomes are raised as
\* three different exception kinds.
C10_DistinctErrorKinds ==
    \A f, g \in Failures : f # g => raised[f] \cap raised[g] = {}

\* The statuses that end a task.
TerminalStatuses == {"success", "error", "canceled"}

\* The wait has ended, by returning or by raising.
WaitEnded == wait.pc \in {"returned", "raised"}

\* C11 as stated: when a poll observes the error status, the exception
\* carries the provider's message when the response has one, and the
\* generic message when it has no Error element or an Error element without
\* a message.
C11_ErrorCarriesMessageOrGeneric ==
    (wait.pc = "raised" /\ wait.outcome = "error") =>
        wait.exc.error_msg =
            IF wait.error_elem.present /\ wait.error_elem.message # None
            THEN wait.error_elem.message
            ELSE "Unknown error"

\* C12: one status fetch per observed status and none after a terminal one:
\* every status observed before the last is non-terminal, the polls are the
\* observed statuses (and the fetch that raised, if one did), and a wait
\* that ends on a terminal status at position k has polled exactly k times.
C12_OnePollPerStatus ==
    /\ \A i \in 1..(Len(wait.observed) - 1) :
          wait.observed[i] \notin TerminalStatuses
    /\ wait.polls = Len(wait.observed)
                        + (IF wait.outcome = "request failed" THEN 1 ELSE 0)
    /\ (WaitEnded /\ wait.outcome \in TerminalStatuses) =>
          /\ wait.polls >= 1
          /\ wait.observed[wait.polls] = wait.outcome

\* C12 witness: queued, running, running, success returned after 4 polls.
C12_Witness ==
    /\ wait.pc = "returned"
    /\ wait.observed = <<"queued", "running", "running", "success">>
    /\ wait.polls = 4

\* The cadences a caller may ask for, in seconds.
PollIntervals == {1, 5}

\* The step is the sleep between two polls.
SleepsBetweenPolls == wait.pc = "sleep" /\ wait'.pc = "fetch"

\* C13 as stated: whatever poll_interval the caller asks for, the wait
\* sleeps that long between two polls.
C13_PollsAtCallerInterval ==
    [][\A poll_interval \in PollIntervals :
          SleepsBetweenPolls => clock' - clock = poll_interval]_vars

\* C14: a wait ends in exactly one of the outcomes success, error, canceled
\* and timeout unless a fetch raised; one that observed no terminal status
\* ends in the timeout; and every wait that was called ends.
C14_WaitTerminates ==
    /\ [](WaitEnded =>
            /\ wait.outcome \in
                  {"success", "error", "canceled", "timeout", "request failed"}
            /\ (wait.pc = "returned") = (wait.outcome = "success")
            /\ (/\ wait.outcome # "request failed"
                /\ \A i \in DOMAIN wait.observed :
                      wait.observed[i] \notin TerminalStatuses)
               => wait.outcome = "timeout")
    /\ [](wait.pc = "fetch" => <>WaitEnded)

\* C14 witness: a wait of a task that never left running timed out at its
\* third poll.
C14_Witness ==
    /\ wait.pc = "raised"
    /\ wait.outcome = "timeout"
    /\ wait.observed = <<"running", "running", "running">>
    /\ wait.timeout = 7

\* The entries of the driver's history that submitted `operation`.
SubmissionsOf(operation) ==
    {i \in DOMAIN drv.log : drv.log[i].operation = operation}

\* C15 as stated: no operation re-submits a long-running operation after
\* the wait on its task failed by error, cancellation or timeout.
C15_NoResubmission ==
    \A i, j \in DOMAIN drv.log :
        (i < j /\ drv.log[i].outcome \in Failures)
            => drv.log[j].operation # drv.log[i].operation

\* C15, amended: after a failed attempt an operation is re-submitted in two
\* places only: create_node re-submits the deployment, at most 4 attempts in
\* all, and ex_undeploy_node re-submits the undeploy once, as powerOff after
\* a failed shutdown.  destroy_node (API 0.8) re-submits nothing but passes
\* over a failed power-off or undeploy and goes on.  The failure of any
\* other attempt (the instantiation, the last deployment, the powerOff
\* undeploy) is what the caller gets.
C15_ResubmitsOnlyDeployAndUndeploy ==
    /\ \A i \in DOMAIN drv.log :
          (i < Len(drv.log) /\ drv.log[i].outcome # "success") =>
              \/ /\ drv.op = "create_node"
                 /\ drv.log[i].operation = "deploy"
                 /\ drv.log[i + 1].operation = "deploy"
              \/ /\ drv.op = "ex_undeploy_node"
                 /\ drv.log[i].action = "shutdown"
                 /\ drv.log[i + 1].action = "powerOff"
              \/ /\ drv.op = "destroy_node"
                 /\ drv.log[i].operation \in {"poweroff", "undeploy"}
                 /\ drv.log[i + 1].operation # drv.log[i].operation
    /\ Cardinality(SubmissionsOf("instantiate")) <= 1
    /\ Cardinality(SubmissionsOf("deploy")) <= 4
    /\ Cardinality(SubmissionsOf("undeploy")) <= 2
    /\ Cardinality(SubmissionsOf("poweroff")) <= 1
    /\ drv.op = "destroy_node" => Cardinality(SubmissionsOf("undeploy")) <= 1
    /\ (drv.log # << >> /\ drv.log[Len(drv.log)].outcome # "success") =>
          \/ drv.pc = "raised" /\ drv.exc = drv.log[Len(drv.log)].outcome
          \/ drv.pc = "deploy" /\ Cardinality(SubmissionsOf("deploy")) < 4
          \/ drv.pc = "undeploy" /\ drv.log[Len(drv.log)].action = "shutdown"
          \/ /\ drv.op = "destroy_node"
             /\ drv.pc \in {"destroy undeploy", "delete"}

\* C15 witness: create_node raised the timeout of its fourth deployment,
\* after three deployments whose tasks had failed.
C15_Witness ==
    /\ drv.op = "create_node"
    /\ drv.pc = "raised"
    /\ drv.exc = "timeout"
    /\ Cardinality(SubmissionsOf("deploy")) = 4
    /\ \A i \in SubmissionsOf("deploy") : drv.log[i].outcome \in Failures
    /\ drv.slept = 3 * RETRY_SLEEP_SECONDS

\* The last operation of client c is a call that was not stopped by a failed
\* authentication.
CallPastAuthentication(c) ==
    /\ last[c].op \in Calls
    /\ last[c].exc \notin {"InvalidCredsError", "MalformedResponseError"}

LookupsOf(c) == Count(last[c].events, "lookup")

\* The call failed because no endpoint was found, before sending anything.
EndpointNotFound(c) ==
    /\ last[c].exc = "LibcloudError"
    /\ last[c].msg = "Could not find specified endpoint"
    /\ SendsOf(c) = 0

\* The connection of client c is set up for the URL u and the call was not
\* stopped for want of an endpoint.
ResolvedTo(c, u) ==
    /\ ~EndpointNotFound(c)
    /\ conn[c].host = u.host
    /\ conn[c].request_path = u.path
    /\ conn[c].secure = (u.scheme = "https")

\* The catalog entries of a type and name, and those of them in a region, as
\* positions in the catalog client c holds.
EntriesOfService(c, type, name) ==
    {i \in DOMAIN conn[c].service_catalog.entries :
        /\ conn[c].service_catalog.entries[i].type = type
        /\ conn[c].service_catalog.entries[i].name = name}

EntriesInRegion(c, type, name, region) ==
    {i \in EntriesOfService(c, type, name) :
        conn[c].service_catalog.entries[i].region = region}

\* The first position of a non-empty set of positions.
First(S) == CHOOSE i \in S : \A j \in S : i <= j

\* Client c picks its endpoint from the catalog.
PicksFromCatalog(c) ==
    /\ CallPastAuthentication(c)
    /\ ~UrlTruthy(cfg[c].ex_force_base_url)
    /\ ~Truthy(cfg[c].ex_force_auth_token)

\* C16 as stated: the lookup returns an entry of the effective region when
\* one matches type, name and region; the first type/name match in catalog
\* order when entries match type and name but none the region; and fails
\* with the endpoint-not-found error when none matches type and name.
C16_RegionPreferredElseFirstMatch ==
    \A c \in Clients :
        PicksFromCatalog(c) =>
            LET q == last[c].query
                entries == conn[c].service_catalog.entries
                ofService == EntriesOfService(c, q.type, q.name)
                inRegion == EntriesInRegion(c, q.type, q.name, q.region)
            IN /\ inRegion # {} =>
                    \E i \in inRegion : ResolvedTo(c, entries[i].url)
               /\ (inRegion = {} /\ ofService # {}) =>
                    ResolvedTo(c, entries[First(ofService)].url)
               /\ ofService = {} => EndpointNotFound(c)

\* C16, amended: the lookup returns an entry of the effective region when
\* one matches type, name and region, and fails with the endpoint-not-found
\* error in every other case: when entries match type and name but none the
\* region, and when none matches type and name.
C16_RegionMatchOrNotFound ==
    \A c \in Clients :
        PicksFromCatalog(c) =>
            LET q == last[c].query
                entries == conn[c].service_catalog.entries
                inRegion == EntriesInRegion(c, q.type, q.name, q.region)
            IN /\ LookupsOf(c) = 1
               /\ inRegion # {} =>
                    \E i \in inRegion : ResolvedTo(c, entries[i].url)
               /\ inRegion = {} => EndpointNotFound(c)

\* C16 witness: the provider's service has an entry, in another region than
\* the effective one, and the call found no endpoint.
C16_Witness ==
    /\ PicksFromCatalog("c1")
    /\ served = CatalogRegionTwo
    /\ cfg["c1"].ex_force_service_region = None
    /\ EntriesOfService("c1", "compute", "nova") # {}
    /\ EndpointNotFound("c1")

\* C17: with a forced service region in which the catalog has no entry of
\* the client's service, a request fails with 'Could not find specified
\* endpoint' and nothing is sent, also when the service has entries in
\* other regions.
C17_InvalidForcedRegionFails ==
    \A c \in Clients :
        (/\ PicksFromCatalog(c)
         /\ last[c].op = "request"
         /\ Truthy(cfg[c].ex_force_service_region)
         /\ EntriesInRegion(c, last[c].query.type, last[c].query.name,
                            cfg[c].ex_force_service_region) = {})
        => /\ EndpointNotFound(c)
           /\ last[c].code = 0

\* C17 witness: the first request of a client whose forced region is
\* invalid failed, the service having entries in two other regions.
C17_Witness ==
    /\ PicksFromCatalog("c1")
    /\ last["c1"].op = "request"
    /\ last["c1"].prev_op = "init"
    /\ cfg["c1"].ex_force_service_region = "invalid"
    /\ served = CatalogFull
    /\ Cardinality(EntriesOfService("c1", "compute", "nova")) = 2
    /\ EndpointNotFound("c1")

\* C18: with a forced base URL, a call never asks the catalog for an
\* endpoint, and once authenticated it sets the connection up from the
\* forced URL, whatever the catalog and the service overrides are.
C18_ForcedBaseUrlBypassesCatalog ==
    \A c \in Clients :
        (last[c].op \in Calls /\ UrlTruthy(cfg[c].ex_force_base_url)) =>
            /\ LookupsOf(c) = 0
            /\ last[c].query = NoQuery
            /\ CallPastAuthentication(c) =>
                  (~EndpointNotFound(c) /\ UsesForcedBaseUrl(c))

\* C18 witness: a request with a forced base URL was sent although the
\* catalog has no entry for the forced region.
C18_Witness ==
    /\ last["c1"].op = "request"
    /\ UrlTruthy(cfg["c1"].ex_force_base_url)
    /\ ~Truthy(cfg["c1"].ex_force_auth_token)
    /\ cfg["c1"].ex_force_service_region = "invalid"
    /\ cfg["c1"].ex_force_service_type = "object-store"
    /\ served = CatalogEmpty
    /\ SendsOf("c1") = 1
    /\ last["c1"].code = 200

\* The value a field of the lookup takes: the forced one when one is set.
Overlay(forced, default) == IF forced # None THEN forced ELSE default

\* C19: type, name and region of the catalog lookup are, each by itself,
\* the forced value when one is set and the provider's default otherwise;
\* with a catalog that has an entry for every combination, the endpoint
\* picked is the entry of exactly that combination.
C19_OverridesPerField ==
    \A c \in Clients :
        PicksFromCatalog(c) =>
            LET type == Overlay(cfg[c].ex_force_service_type,
                                cfg[c].service_type)
                name == Overlay(cfg[c].ex_force_service_name,
                                cfg[c].service_name)
                region == Overlay(cfg[c].ex_force_service_region,
                                  cfg[c].service_region)
            IN /\ last[c].query = [type |-> type, name |-> name,
                                   region |-> region]
               /\ (served = CatalogFull /\ region # "invalid") =>
                    \E i \in DOMAIN CatalogFull :
                        /\ CatalogFull[i].type = type
                        /\ CatalogFull[i].name = name
                        /\ CatalogFull[i].region = region
                        /\ ResolvedTo(c, CatalogFull[i].url)

\* C19 witness: type and region forced, the name left to the default.
C19_Witness ==
    /\ PicksFromCatalog("c1")
    /\ served = CatalogFull
    /\ cfg["c1"].ex_force_service_type = "object-store"
    /\ cfg["c1"].ex_force_service_name = None
    /\ cfg["c1"].ex_force_service_region = "RegionTwo"
    /\ conn["c1"].host = "store-nova.two.example.com"

\* The positions at which a token of s begins: a character that is not
\* whitespace, at the start or after whitespace.
TokenStarts(s) ==
    {i \in DOMAIN s :
        s[i] \notin Whitespace /\ (i = 1 \/ s[i - 1] \in Whitespace)}

\* The token of s that begins at position i: up to the next whitespace or
\* the end.
TokenAt(s, i) ==
    LET ends == {j \in i..Len(s) :
                    /\ \A k \in i..j : s[k] \notin Whitespace
                    /\ (j = Len(s) \/ s[j + 1] \in Whitespace)}
    IN SubSeq(s, i, CHOOSE j \in ends : TRUE)

\* The last operation of client c is a request that built its headers with
\* a forced microversion.
BuiltHeadersWithMicroversion(c) ==
    /\ last[c].op = "request"
    /\ CallPastAuthentication(c)
    /\ ~EndpointNotFound(c)
    /\ cfg[c].ex_force_microversion # NoMicroversion

\* The request was refused for its microversion: no header, nothing sent.
MicroversionRejected(c) ==
    /\ last[c].exc = "LibcloudError"
    /\ last[c].msg = "Invalid microversion format: servicename X.XX"
    /\ last[c].api_version = << >>
    /\ SendsOf(c) = 0

\* C20: a forced microversion is split on whitespace; two tokens are service
\* and version, one token is the version of the service "compute", and any
\* other number of tokens (none in a string of whitespace, three or more)
\* is refused with an error and no header.
C20_MicroversionTokens ==
    \A c \in Clients :
        BuiltHeadersWithMicroversion(c) =>
            LET s == cfg[c].ex_force_microversion
                starts == TokenStarts(s)
                parsed == last[c].microversion
            IN /\ Cardinality(starts) = 2 =>
                    /\ ~MicroversionRejected(c)
                    /\ parsed.service_type = TokenAt(s, First(starts))
                    /\ parsed.microversion =
                          TokenAt(s, First(starts \ {First(starts)}))
               /\ Cardinality(starts) = 1 =>
                    /\ ~MicroversionRejected(c)
                    /\ parsed.service_type = COMPUTE
                    /\ parsed.microversion = TokenAt(s, First(starts))
               /\ Cardinality(starts) \notin {1, 2} => MicroversionRejected(c)
               /\ last[c].api_version # << >> =>
                    last[c].api_version =
                        parsed.service_type \o <<" ">> \o parsed.microversion

\* C20 witness: a microversion of whitespace only was refused.
C20_Witness ==
    /\ BuiltHeadersWithMicroversion("c1")
    /\ cfg["c1"].ex_force_microversion = <<" ", "\t", " ">>
    /\ MicroversionRejected("c1")

\* The service type client c addresses: the forced one when one is set.
EffectiveServiceType(c) ==
    Overlay(cfg[c].ex_force_service_type, cfg[c].service_type)

\* C21 as stated: a request with a forced microversion of one or two tokens
\* carries the header exactly when the effective service type, the forced
\* one when one is set, starts with the microversion's service.
C21_HeaderIffEffectiveTypeMatches ==
    \A c \in Clients :
        (BuiltHeadersWithMicroversion(c) /\ last[c].microversion.ok) =>
            (last[c].api_version # << >>
                <=> StartsWith(Chars(EffectiveServiceType(c)),
                               last[c].microversion.service_type))

\* Client c was given a forced token (a non-empty one) and no forced base
\* URL.
ForcedTokenWithoutBaseUrl(c) ==
    /\ phase[c] # "unbuilt"
    /\ Truthy(cfg[c].ex_force_auth_token)
    /\ ~UrlTruthy(cfg[c].ex_force_base_url)

\* C22: constructing a client with a forced token and no forced base URL
\* fails with LibcloudError in the constructor, before any handshake or
\* request; no constructed client has a forced token without a forced base
\* URL.
C22_ForcedTokenNeedsBaseUrl ==
    \A c \in Clients :
        /\ ForcedTokenWithoutBaseUrl(c) =>
              /\ phase[c] = "config_error"
              /\ last[c].op = "init"
              /\ last[c].exc = "LibcloudError"
              /\ last[c].events = << >>
              /\ issued = 0
              /\ osa[c] = NoContext
              /\ conn[c] = NoConn
        /\ phase[c] = "ready" => ~ForcedTokenWithoutBaseUrl(c)

\* C22 witness: the construction failed for the forced token alone, the
\* auth URL being given.
C22_Witness ==
    /\ ForcedTokenWithoutBaseUrl("c1")
    /\ cfg["c1"].auth_url # None
    /\ cfg["c1"].ex_force_auth_token = "preset-auth-token"
    /\ phase["c1"] = "config_error"

\* The client was built with a protocol identifier no handshake class exists for
UnsupportedVersion(c) ==
    phase[c] = "ready" /\ auth_version[c] \notin SupportedAuthVersions

\* C23 (as stated): the handshake implementation is selected when the client
\* is constructed, so a client with an unsupported protocol identifier is
\* rejected by the constructor and never exists.
C23_RejectedAtConstruction ==
    \A c \in Clients :
        phase[c] = "ready" => auth_version[c] \in SupportedAuthVersions

\* C23 (amended): the constructor accepts an unsupported protocol identifier;
\* the handshake implementation is looked up by the first call, and every
\* call of such a client fails with LibcloudError before any handshake or
\* request is made, leaving the client without context and connection.
C23_RejectedAtFirstCall ==
    \A c \in Clients :
        UnsupportedVersion(c) =>
            /\ osa[c] = NoContext
            /\ conn[c] = NoConn
            /\ \/ last[c].op = "init" /\ last[c].exc = "none"
               \/ /\ last[c].op \in Calls
                  /\ last[c].exc = "LibcloudError"
                  /\ last[c].msg = "unsupported auth version"
                  /\ last[c].events = << >>
                  /\ last[c].sent = None

C23_Witness ==
    /\ UnsupportedVersion("c1")
    /\ auth_version["c1"] = "5.0"
    /\ last["c1"].op = "request"
    /\ last["c1"].exc = "LibcloudError"
    /\ issued = 0

\* The tokens successful handshakes have produced so far.
IssuedTokens == {Tok(i) : i \in 1..issued}

\* The cache key of the two clients of one account.
SharedKey == CacheKey(CHOOSE cf \in SharedConfigs : TRUE)

\* The caller's last call got past authentication.
Authenticated(c) ==
    /\ run[c].pc = "idle"
    /\ last[c].op = "populate"
    /\ last[c].exc \notin {"InvalidCredsError", "MalformedResponseError"}

\* The caller has obtained a context and goes on with it.
Proceeds(c) == run[c].pc \in {"copy", "endpoint"}

\* C24: when callers authenticate concurrently on one key and miss the cache,
\* each may perform the handshake; whatever the interleaving the store holds
\* at most one entry for the key, that entry is the context written last,
\* and each caller goes on with a token that a successful handshake produced.
C24_LastWriteWins ==
    /\ DOMAIN cache \subseteq {SharedKey}
    /\ Cardinality(DOMAIN cache) <= 1
    /\ (writes = << >>) <=> (cache = << >>)
    /\ writes # << >> =>
          cache[SharedKey].auth_token = writes[Len(writes)]
    /\ \A c \in Clients :
          /\ Proceeds(c) => osa[c].auth_token \in IssuedTokens
          /\ (run[c].pc = "endpoint" \/ Authenticated(c))
                => conn[c].auth_token \in IssuedTokens

C24_Witness ==
    /\ \A c \in Clients :
          /\ cfg[c].ex_auth_cache
          /\ run[c].pc = "endpoint"
          /\ run[c].found = None
          /\ run[c].newtok = conn[c].auth_token
          /\ is_token_valid(osa[c], now)
    /\ conn["c1"].auth_token # conn["c2"].auth_token
    /\ Len(writes) = 2
    /\ cache[SharedKey].auth_token = conn["c1"].auth_token

\* The first call of a client found a valid context in the shared cache.
FirstCallFoundContext(c) ==
    /\ cfg[c].ex_auth_cache
    /\ run[c].found # None
    /\ \/ Proceeds(c) /\ last[c].op = "init"
       \/ run[c].pc = "idle" /\ last[c].op = "populate"
             /\ last[c].prev_op = "init"

\* C26: of two clients with the same auth endpoint, credentials and scope
\* that share an external cache, the one whose first call finds a valid
\* context stored by the other's handshake reuses it: that call performs no
\* handshake and uses the other client's token.
C26_SecondClientReusesContext ==
    \A c \in Clients :
        FirstCallFoundContext(c) =>
            /\ Count(run[c].events, "handshake") = 0
            /\ run[c].newtok = None
            /\ osa[c].auth_token = run[c].found
            /\ run[c].pc # "copy" => conn[c].auth_token = run[c].found
            /\ \E i \in DOMAIN writes : writes[i] = run[c].found
            /\ \E d \in Clients \ {c} : cfg[d].ex_auth_cache
            /\ run[c].pc = "idle" => HandshakesOf(c) = 0

C26_Witness ==
    /\ FirstCallFoundContext("c2")
    /\ run["c2"].pc = "idle"
    /\ last["c2"].exc = "none"
    /\ last["c1"].newtok = conn["c2"].auth_token
    /\ conn["c1"].auth_token = conn["c2"].auth_token
    /\ issued = 1

\* The last operation on the cache was clear(key).
Cleared(key) == mock.op = "clear" /\ mock.key = key

\* C25: clear is idempotent: clearing an absent key raises no error and
\* changes nothing, a clear changes no entry of another key, and clear(k)
\* after clear(k) leaves the store the first clear(k) left.
C25_ClearIdempotent ==
    \A k \in StoreKeys :
        Cleared(k) =>
            /\ mock.exc = "none"
            /\ k \notin DOMAIN cache
            /\ DOMAIN cache = DOMAIN mock.before \ {k}
            /\ \A j \in DOMAIN cache : cache[j] = mock.before[j]
            /\ k \notin DOMAIN mock.before => cache = mock.before
            /\ (mock.prev_op = "clear" /\ mock.prev_key = k)
                  => cache = mock.before

C25_Witness ==
    /\ Cleared("key-a")
    /\ mock.prev_op = "clear"
    /\ mock.prev_key = "key-a"
    /\ "key-b" \in DOMAIN cache
    /\ mock.exc = "none"

\* Every non-empty token of a client without a forced token is one that a
\* successful handshake produced.
TokensComeFromHandshakes ==
    \A c \in Clients :
        (/\ phase[c] = "ready"
         /\ ~Truthy(cfg[c].ex_force_auth_token)
         /\ Truthy(conn[c].auth_token)) => conn[c].auth_token \in IssuedTokens

\* The step changes the expiry the client holds.
ExpiryChanges(c) ==
    conn'[c].auth_token_expires # conn[c].auth_token_expires

\* The step replaces the client's whole context by the one the handshake of
\* the step produced, the newest there is.
WholeContextReplaced(c) ==
    /\ last'[c].newtok = Tok(issued')
    /\ issued' = issued + 1
    /\ \E hs \in Handshakes(served) :
          /\ hs.result = "ok"
          /\ LET ctx == HandshakeContext(cfg[c], auth_version[c], hs, now,
                                         issued)
             IN /\ conn'[c].auth_token = ctx.auth_token
                /\ conn'[c].auth_token_expires = ctx.auth_token_expires
                /\ conn'[c].auth_user_info = ctx.auth_user_info
                /\ conn'[c].service_catalog =
                      OpenStackServiceCatalog(ctx.urls)

Peer(cn) == <<cn.host, cn.port, cn.secure>>

\* The step is a call of client c.
CallStep(c) ==
    /\ phase[c] = "ready"
    /\ served' = served
    /\ last'[c].op \in Calls

\* The URL of the service in the catalog client c holds after the step.
HeldEndpoint(c) == conn'[c].service_catalog.entries[1].url

\* The call of the step got as far as setting up the connection.
SetsUpConnection(c) ==
    /\ conn'[c].service_catalog.parsed
    /\ last'[c].exc \notin {"InvalidCredsError", "MalformedResponseError"}

\* C28: a call re-establishes the connection exactly when the host, port or
\* scheme it resolves differs from the one in use; a call that resolves the
\* same host, port and scheme reuses the connection, also when the path
\* prefix differs, and the path prefix is updated all the same.
C28_ReconnectIffPeerChanges ==
    [][\A c \in Clients :
         CallStep(c) =>
            /\ Count(last'[c].events, "connect") =
                  (IF Peer(conn'[c]) # Peer(conn[c]) THEN 1 ELSE 0)
            /\ SetsUpConnection(c) =>
                  /\ Peer(conn'[c]) =
                        Peer(tuple_from_url(HeldEndpoint(c)))
                  /\ conn'[c].request_path = HeldEndpoint(c).path
                  /\ (Count(last'[c].events, "connect") = 1) <=>
                        (Peer(tuple_from_url(HeldEndpoint(c))) # Peer(conn[c]))
            /\ ~SetsUpConnection(c) =>
                  conn'[c].request_path = conn[c].request_path
      ]_vars

C28_Witness ==
    /\ last["c1"].op \in Calls
    /\ Count(last["c1"].events, "handshake") = 1
    /\ Count(last["c1"].events, "connect") = 0
    /\ last["c1"].pre_path = "/v1.0/slug"
    /\ conn["c1"].request_path = "/v2.0/slug"
    /\ last["c1"].exc = "none"

\* The attempts to deploy made by the running create_node, as positions in
\* its history, and those of them that failed.
DeployAttempts == {i \in DOMAIN drv.log : drv.log[i].operation = "deploy"}

FailedDeployAttempts == {i \in DeployAttempts : drv.log[i].outcome # "success"}

\* create_node gave up deploying: it ended with the error of an attempt.
DeployGaveUp ==
    /\ drv.op = "create_node"
    /\ drv.pc = "raised"
    /\ Len(drv.log) \in FailedDeployAttempts

\* C29: create_node with ex_deploy tries ex_deploy_node at most 4 times, one
\* attempt and at most 3 retries, each retry 10 seconds after a failure;
\* no attempt follows a success, and when the fourth attempt fails its
\* error is the one create_node raises.
C29_DeployRetriedThreeTimes ==
    drv.op = "create_node" =>
        /\ Cardinality(DeployAttempts) <= 4
        /\ DeployAttempts # {} => drv.ex_deploy
        /\ \A i \in DeployAttempts :
              drv.log[i].outcome = "success" => i = Len(drv.log)
        /\ drv.pc = "deploy" =>
              /\ drv.retry = 3 - Cardinality(FailedDeployAttempts)
              /\ drv.retry >= 0
              /\ drv.slept =
                    RETRY_SLEEP_SECONDS * Cardinality(FailedDeployAttempts)
        /\ DeployGaveUp =>
              /\ Cardinality(FailedDeployAttempts) = 4
              /\ drv.exc = drv.log[Len(drv.log)].outcome
              /\ drv.slept = 3 * RETRY_SLEEP_SECONDS
        /\ (DeployAttempts # {} /\ drv.pc \in {"fetch", "returned"}) =>
              /\ drv.log[Len(drv.log)].outcome = "success"
              /\ drv.slept =
                    RETRY_SLEEP_SECONDS * Cardinality(FailedDeployAttempts)

C29_Witness ==
    /\ DeployGaveUp
    /\ Cardinality(DeployAttempts) = 4
    /\ drv.log[Len(drv.log)].outcome = "canceled"
    /\ drv.log[2].outcome = "error"
    /\ drv.exc = "canceled"

\* The wait ended on the status of its last poll, which was made at or after
\* the deadline.
EndedPastDeadline ==
    /\ WaitEnded
    /\ wait.outcome # "request failed"
    /\ wait.observed # << >>
    /\ TimedOut(clock, wait.start_time, wait.timeout)

\* The status the last poll observed.
LastObserved == wait.observed[Len(wait.observed)]

\* C30: a terminal status wins over the deadline: a wait whose poll at or
\* after the deadline observes success returns, one that observes error or
\* canceled reports that, and timeout is reported only when the status
\* observed at that poll is not terminal.
C30_TerminalStatusWinsOverDeadline ==
    /\ EndedPastDeadline =>
          /\ LastObserved = "success" =>
                wait.pc = "returned" /\ wait.outcome = "success"
          /\ LastObserved \in {"error", "canceled"} =>
                wait.pc = "raised" /\ wait.outcome = LastObserved
          /\ LastObserved \notin TerminalStatuses =>
                wait.pc = "raised" /\ wait.outcome = "timeout"
    /\ (WaitEnded /\ wait.outcome = "timeout") =>
          /\ EndedPastDeadline
          /\ LastObserved \notin TerminalStatuses

C30_Witness ==
    /\ EndedPastDeadline
    /\ wait.timeout = 7
    /\ clock - wait.start_time = 10
    /\ wait.observed = <<"running", "running", "canceled">>
    /\ wait.outcome = "canceled"

\* The statuses the wait does not end on.
NonTerminalStatuses == Statuses \ TerminalStatuses

\* The wait ended by itself, not by the failure of a status request (which
\* propagates to the caller as it is).
EndedByItself == WaitEnded /\ wait.outcome # "request failed"

\* C31: every status other than success, error and canceled, a missing one
\* included, is non-terminal: after a poll that observes it the wait sleeps
\* and polls again unless the deadline has passed, and a wait whose last
\* poll observed it ended by the timeout and by nothing else.
C31_OtherStatusesNonTerminal ==
    /\ [](EndedByItself /\ wait.observed # << >>
             /\ LastObserved \in NonTerminalStatuses
          => /\ wait.pc = "raised"
             /\ wait.outcome = "timeout"
             /\ TimedOut(clock, wait.start_time, wait.timeout))
    /\ [](wait.pc = "sleep" =>
             /\ LastObserved \in NonTerminalStatuses
             /\ ~TimedOut(clock, wait.start_time, wait.timeout))
    /\ [][(wait.pc = "loop" /\ wait.status \in NonTerminalStatuses) =>
             \/ wait'.pc = "sleep"
             \/ /\ wait'.pc = "raised" /\ wait'.outcome = "timeout"
                /\ TimedOut(clock, wait.start_time, wait.timeout)
         ]_vars
    /\ [][wait.pc = "sleep" => wait'.pc = "fetch"]_vars

C31_Witness ==
    /\ EndedByItself
    /\ wait.observed = <<None, "queued", None>>
    /\ wait.outcome = "timeout"
    /\ wait.timeout = 7

\* The step is the eviction that ends a request of client c answered 401.
EvictionStep(c) == run[c].pc = "evict" /\ run'[c].pc = "idle"

\* The step removes the entry of client c's key from the cache.
RemovesCachedContext(c) ==
    /\ CacheKey(cfg[c]) \in DOMAIN cache
    /\ CacheKey(cfg[c]) \notin DOMAIN cache'

\* C32: with callers that share a store, the eviction a 401 triggers removes
\* only the context whose token the failed request used, never one that
\* another caller's newer handshake stored after the request was sent.
C32_EvictsOnlyTheTokenUsed ==
    [][\A c \in Clients :
          (EvictionStep(c) /\ RemovesCachedContext(c)) =>
              cache[CacheKey(cfg[c])].auth_token = run[c].sent
      ]_vars

\* A request of client c was answered 401.
AnsweredUnauthorized(c) ==
    /\ phase[c] = "ready"
    /\ last[c].op = "request"
    /\ last[c].code = UNAUTHORIZED

\* C33: the configurations that skip authentication are exactly those for
\* which a 401 does not evict: whatever the forced token option is (absent,
\* the empty string, non-empty), a 401 on a request of a client that
\* authenticates to obtain its token clears the cached context, and a 401
\* on a request of a client that skips authentication does not.
C33_SkipsAuthIffNoEviction ==
    \A c \in Clients :
        AnsweredUnauthorized(c) =>
            /\ ~SkipsAuthentication(cfg[c]) =>
                  (ClearsOf(c) = 1 /\ osa[c] = NoContext)
            /\ SkipsAuthentication(cfg[c]) => ClearsOf(c) = 0

\* A request of client c was sent and failed otherwise than by a 401: by
\* another HTTP error status or with no HTTP answer at all.
FailedOtherwise(c) ==
    /\ phase[c] = "ready"
    /\ last[c].op = "request"
    /\ SendsOf(c) = 1
    /\ last[c].code \notin {200, UNAUTHORIZED}

\* C34: a request that fails with an HTTP error status other than 401 or
\* with a non-HTTP error clears nothing: the identity connection, the cache
\* and the connection still hold the token the request was sent with, and
\* the caller gets the error as it was raised.
C34_OtherErrorsChangeNothing ==
    \A c \in Clients :
        FailedOtherwise(c) =>
            /\ ClearsOf(c) = 0
            /\ last[c].evicted = None
            /\ conn[c].auth_token = last[c].sent
            /\ ~SkipsAuthentication(cfg[c]) =>
                  /\ osa[c].auth_token = last[c].sent
                  /\ HandshakesOf(c) = 0 => last[c].pre_tok = last[c].sent
                  /\ cfg[c].ex_auth_cache =>
                        /\ ~NoCachedEntry(c)
                        /\ cache[CacheKey(cfg[c])] = osa[c]
            /\ SkipsAuthentication(cfg[c]) =>
                  osa[c] = NoContext /\ cache = << >>
            /\ last[c].exc = (IF last[c].code = 0 THEN "TransportError"
                              ELSE "BaseHTTPError")

C34_Witness ==
    /\ FailedOtherwise("c1")
    /\ last["c1"].code = 500
    /\ cfg["c1"].ex_auth_cache
    /\ HandshakesOf("c1") = 0
    /\ last["c1"].sent = "T1"
    /\ cache[CacheKey(cfg["c1"])].auth_token = "T1"


\* The calls of the vCloud connection that ended.
VCloudCalls == {"request", "check_org"}

\* C35: in every reachable state of a vCloud connection, of either API
\* version, a set session token implies that the driver's organisation
\* path has been resolved.
C35_TokenImpliesOrganisation ==
    vc.token # None => vc.org # None

\* The response of the last call's login carried no session header.
LoginLackedHeader ==
    /\ vc.op \in VCloudCalls
    /\ vc.logins = 1
    /\ vc.reply.answered
    /\ vc.reply.header = None

\* C36: a vCloud connection logs in only when it holds no session token,
\* so a call made with a token performs no login; a login whose response
\* lacks the session header fails with invalid-credentials and leaves the
\* token unset, and the next call attempts a login again.
C36_LoginOnlyWithoutToken ==
    /\ [](vc.logins > 0 => vc.pre_token = None)
    /\ [](vc.pre_token # None => vc.logins = 0 /\ vc.token = vc.pre_token)
    /\ [](LoginLackedHeader
            => vc.exc = "InvalidCredsError" /\ vc.token = None)
    /\ [][LoginLackedHeader /\ vc' # vc /\ vc'.api_version # None
            => vc'.logins = 1]_vars


\* The entries of the history for the given operation and action.
Issued(operation, action) ==
    {i \in DOMAIN drv.log : /\ drv.log[i].operation = operation
                            /\ drv.log[i].action = action}

\* The call of the driver ended: it returned or raised.
DriverEnded == drv.pc \in {"returned", "raised"}

\* C37: destroy_node of API 0.8 issues the final DELETE exactly once,
\* whatever happened to the power-off and to the undeploy, and returns true
\* exactly when the status of the DELETE response is ACCEPTED.
C37_DestroyAlwaysDeletes ==
    drv.op = "destroy_node" =>
        /\ Cardinality(Issued("DELETE", None)) <= 1
        /\ Issued("DELETE", None) # {} => Len(drv.log) = 3
        /\ DriverEnded =>
              /\ Issued("DELETE", None) = {Len(drv.log)}
              /\ Cardinality(Issued("poweroff", None)) = 1
              /\ Cardinality(Issued("undeploy", None)) = 1
              /\ drv.result <=> (drv.pc = "returned" /\ drv.status = ACCEPTED)

C37_Witness ==
    /\ drv.op = "destroy_node"
    /\ drv.pc = "returned"
    /\ drv.log[1].outcome = "timeout"
    /\ drv.log[2].outcome = "canceled"
    /\ drv.result

\* ex_undeploy_node is past its undeploy calls.
UndeployDone ==
    /\ drv.op = "ex_undeploy_node"
    /\ drv.pc \in {"fetch", "returned", "raised"}

\* The node was requested again after the undeploy, or is about to be.
Refetched ==
    /\ drv.op = "ex_undeploy_node"
    /\ drv.pc = "fetch" \/ drv.pc = "returned" \/ drv.exc = "fetch failed"

\* C38: ex_undeploy_node with shutdown=true issues the powerOff undeploy
\* exactly once if and only if the shutdown undeploy failed, and a failure
\* of that powerOff propagates; with shutdown=false it issues only powerOff.
\* The node is fetched again only after an undeploy succeeded.
C38_PowerOffIffShutdownFailed ==
    /\ UndeployDone /\ drv.shutdown =>
          /\ Issued("undeploy", "shutdown") = {1}
          /\ Cardinality(Issued("undeploy", "powerOff")) <= 1
          /\ Issued("undeploy", "powerOff") # {}
                <=> drv.log[1].outcome # "success"
    /\ UndeployDone /\ ~drv.shutdown =>
          /\ Issued("undeploy", "shutdown") = {}
          /\ Issued("undeploy", "powerOff") = {1}
    /\ UndeployDone =>
          /\ Len(drv.log) = Cardinality(Issued("undeploy", "shutdown"))
                            + Cardinality(Issued("undeploy", "powerOff"))
          /\ drv.log[Len(drv.log)].outcome # "success"
                => /\ drv.log[Len(drv.log)].action = "powerOff"
                   /\ drv.pc = "raised"
                   /\ drv.exc = drv.log[Len(drv.log)].outcome
    /\ Refetched => drv.log[Len(drv.log)].outcome = "success"

C38_Witness ==
    /\ drv.op = "ex_undeploy_node"
    /\ drv.pc = "returned"
    /\ drv.shutdown
    /\ Len(drv.log) = 2
    /\ drv.log[1].outcome = "timeout"
    /\ drv.log[2].action = "powerOff"

\* A name that cannot be a computer name: longer than 15 characters, empty,
\* with a character that is no letter, digit or hyphen, or with a hyphen
\* at an end.
InvalidName(name) ==
    \/ Len(name) > 15
    \/ Len(name) = 0
    \/ \E i \in DOMAIN name : name[i] \notin {"a", "1", "-"}
    \/ name[1] = "-"
    \/ name[Len(name)] = "-"

\* One of the VM parameters passed is invalid.
InvalidVmParameter(kw) ==
    \/ kw.ex_vm_names.given
       /\ \E i \in DOMAIN kw.ex_vm_names.value :
             InvalidName(kw.ex_vm_names.value[i])
    \/ kw.ex_vm_cpu.given /\ kw.ex_vm_cpu.value \notin 1..8
    \/ kw.ex_vm_memory.given
       /\ kw.ex_vm_memory.value \notin {512} \cup {1024 * i : i \in 1..8}
    \/ kw.ex_vm_fence.given
       /\ kw.ex_vm_fence.value \notin {"bridged", "isolated", "natRouted"}
    \/ kw.ex_vm_ipmode.given
       /\ kw.ex_vm_ipmode.value \notin {"POOL", "DHCP", "NONE"}
    \/ kw.ex_vm_script.given /\ kw.ex_vm_script.value \notin ScriptFiles

\* C39: create_node of API 1.5 validates all VM parameters before it sends
\* any request: with an invalid parameter it fails with no request issued
\* and no vApp instantiated or cloned.
C39_ValidatesBeforeAnyRequest ==
    /\ drv.op = "create_node" /\ InvalidVmParameter(drv.kwargs) =>
          /\ ~drv.requested
          /\ drv.log = << >>
          /\ drv.pc \in {"validate", "raised"}
          /\ drv.pc = "raised" =>
                drv.exc \in {"ValueError", "NotImplementedError",
                             "LibcloudError"}
    /\ drv.op = "create_node" /\ drv.pc = "validate" => ~drv.requested

C39_Witness ==
    /\ drv.op = "create_node"
    /\ drv.pc = "raised"
    /\ drv.kwargs.ex_vm_names = Absent(<< >>)
    /\ drv.kwargs.ex_vm_ipmode = Given("MANUAL")
    /\ drv.exc = "NotImplementedError"
    /\ ~drv.requested



\* A client with a forced base URL that authenticates made a call while its
\* identity connection held no valid token.
ForcedUrlCallWithoutToken(c) ==
    /\ Authenticates(c)
    /\ UrlTruthy(cfg[c].ex_force_base_url)
    /\ last[c].op \in Calls
    /\ ~HeldValidToken(c)

\* C40: a forced base URL without a forced token does not skip
\* authentication: a call made while the client holds no valid token performs
\* the handshake and sends the token obtained, and only the base URL is
\* taken from the override.
C40_ForcedUrlStillAuthenticates ==
    \A c \in Clients :
        ForcedUrlCallWithoutToken(c) =>
            /\ HandshakesOf(c) = 1
            /\ last[c].events[1] = "handshake"
            /\ Count(last[c].events, "lookup") = 0
            /\ last[c].newtok = None => SendsOf(c) = 0
            /\ last[c].newtok # None =>
                  /\ conn[c].auth_token = last[c].newtok
                  /\ UsesForcedBaseUrl(c)
                  /\ last[c].op = "request" =>
                        SendsOf(c) = 1 /\ last[c].sent = last[c].newtok

\* C40 witness: the token a forced-URL client held has expired, and its
\* request handshakes again and sends the new token to the forced URL.
C40_Witness ==
    /\ ForcedUrlCallWithoutToken("c1")
    /\ cfg["c1"].ex_force_auth_token = None
    /\ last["c1"].op = "request"
    /\ HeldExpiredToken("c1")
    /\ last["c1"].sent = Tok(2)
    /\ last["c1"].code = 200
    /\ UsesForcedBaseUrl("c1")


====
